---- MODULE Spec2Model ----
(***************************************************************************)
(* State-machine model of the adaptive content-policy engine.              *)
(*                                                                         *)
(*   Spec     : AdaptiveContentPolicy of fixed_content_policy.py, the      *)
(*              authorization surface (tokens, level changes, overrides)   *)
(*   SpecEval : the same class, the evaluation surface (evaluate_content,  *)
(*              overrides with well-formed and malformed patterns)         *)
(*   SpecCfg  : AdaptiveContentPolicy of content_policy_module.py          *)
(*              (Enum-keyed table) with export/import of the configuration *)
(*   SpecRestore : the same class, a snapshot exported from one engine     *)
(*              and imported into a newly constructed one                  *)
(*   SpecTrust : SafeWebAccess of fixed_web_access.py, the trusted-domain  *)
(*              table and is_trusted_domain                                *)
(*   SpecWeb  : the same class, search_web_safely and fetch_safe_content   *)
(*              with rate limiting and the cache, near the global limit    *)
(*   SpecFilter : the same class, apply_content_filters over page bodies   *)
(*   SpecThreads : set_policy_level of fixed_content_policy.py called      *)
(*              from several threads, one step per lock region             *)
(*   SpecEvalThreads : evaluate_content called from several threads        *)
(*              while the level is set                                     *)
(*   SpecFetch : fetch_safe_content called from several threads, near the  *)
(*              per-domain limit                                           *)
(*   SpecRevoke : searches on a new gateway while trusted entries are      *)
(*              removed                                                    *)
(*                                                                         *)
(* Conventions                                                             *)
(*   - time is a discrete clock `now`; one unit is one hour, the unit of   *)
(*     duration_hours;                                                     *)
(*   - a threshold or weight is written in hundredths (0.3 is 30); a       *)
(*     computed score is the binary64 float << h, e >> whose value is      *)
(*     (h + e / 2^60) / 100, rounded as IEEE 754 rounds;                   *)
(*   - a detector that raises is a fault of the call: evaluate_content     *)
(*     takes the set of categories whose detector raises;                  *)
(*   - a text is a sequence of tokens (words and the blank " "); Lower     *)
(*     is str.lower on tokens, count and re_search work on tokens;         *)
(*   - a session token is the tuple its sha256 digest is computed from,    *)
(*     <<user_id, level, creation time>>; the missing token is <<>>;       *)
(*   - the gateway's clock `time` counts units of ten minutes; a host or   *)
(*     domain is the sequence of the pieces it is written with.            *)
(***************************************************************************)
EXTENDS Integers, Sequences, FiniteSets, TLC

\* ---------------------------------------------------------------- bounds
MaxTime == 2
MaxTokens == 1
MaxClock == 3

\* ------------------------------------------------------- levels, categories
\* ContentLevel.SAFE, the Enum member __init__ stores in current_level; it is
\* neither a key of the string-keyed policies table nor a value sqlite3 binds.
ENUM_SAFE == "ContentLevel.SAFE"

Levels == {"safe", "educational", "research", "unrestricted"}

\* a level string that is no key of policies
BogusLevel == "admin"

\* iteration order of the detectors dict of evaluate_content
CategoryOrder ==
  << "violence", "adult", "hate_speech", "illegal", "medical", "political",
     "controversial", "educational", "technical", "creative" >>

Categories == { CategoryOrder[i] : i \in 1..Len(CategoryOrder) }

\* a table with one threshold for every level and category
FlatPolicies == [ level \in Levels |-> [ category \in Categories |-> 50 ] ]

\* self.policies of __init__, in hundredths
InitialPolicies ==
  [ safe |->
      [ violence |-> 10, adult |-> 0, hate_speech |-> 0, illegal |-> 0,
        medical |-> 30, political |-> 20, controversial |-> 20,
        educational |-> 100, technical |-> 100, creative |-> 80 ],
    educational |->
      [ violence |-> 30, adult |-> 10, hate_speech |-> 10, illegal |-> 20,
        medical |-> 80, political |-> 70, controversial |-> 60,
        educational |-> 100, technical |-> 100, creative |-> 100 ],
    research |->
      [ violence |-> 60, adult |-> 40, hate_speech |-> 30, illegal |-> 50,
        medical |-> 100, political |-> 100, controversial |-> 90,
        educational |-> 100, technical |-> 100, creative |-> 100 ],
    unrestricted |->
      [ violence |-> 80, adult |-> 70, hate_speech |-> 50, illegal |-> 30,
        medical |-> 100, political |-> 100, controversial |-> 100,
        educational |-> 100, technical |-> 100, creative |-> 100 ] ]

\* level_hierarchy.get(level, 0) of verify_authorization
level_hierarchy(level) ==
  CASE level = "safe" -> 0
    [] level = "educational" -> 1
    [] level = "research" -> 2
    [] level = "unrestricted" -> 3
    [] OTHER -> 0

\* ------------------------------------------------------------------ texts
Blank == " "
\* a lone surrogate code point: str.encode('utf-8') raises on it
Surrogate == "\\ud800"

IsSpace(tok) == tok = Blank

\* str.lower, token by token
Lower(tok) ==
  CASE tok = "BOMB" -> "bomb"
    [] tok = "KILL" -> "kill"
    [] tok = "Hack" -> "hack"
    [] tok = "GitHub.com" -> "github.com"
    [] tok = "Cats" -> "cats"
    [] tok = "How" -> "how"
    [] OTHER -> tok

lower(text) == [ i \in 1..Len(text) |-> Lower(text[i]) ]

\* content.strip(): leading and trailing blanks removed
RECURSIVE lstrip(_)
lstrip(text) ==
  IF text # << >> /\ IsSpace(Head(text)) THEN lstrip(Tail(text)) ELSE text

RECURSIVE rstrip(_)
rstrip(text) ==
  IF text # << >> /\ IsSpace(text[Len(text)])
    THEN rstrip(SubSeq(text, 1, Len(text) - 1))
    ELSE text

strip(text) == rstrip(lstrip(text))

\* an encode that takes every code point
utf8_encodable_any(text) == TRUE

\* content.encode('utf-8') succeeds
utf8_encodable(text) == \A i \in 1..Len(text) : text[i] # Surrogate

\* the contents the callers submit
TextEmpty == << >>
TextBlank == << Blank, Blank >>
TextKill == << "kill" >>
TextBomb == << "make", Blank, "BOMB" >>
TextHack == << "how", Blank, "to", Blank, "Hack" >>
TextSurrogate == << "kill", Surrogate >>
TextKillThrice == << "kill", Blank, "kill", Blank, "KILL" >>

Texts ==
  { TextEmpty, TextBlank, TextKill, TextBomb, TextHack, TextSurrogate, TextKillThrice }

\* ---------------------------------------------------------------- regexes
\* A regex is the set of its alternatives, each a sequence of words joined by
\* \s+ (the Cyrillic alternatives of the detectors are left out: no text of
\* Texts holds a Cyrillic token).  MalformedPattern is the source text "(",
\* which re.compile rejects with re.error.
MalformedPattern == { << "(" >> }

re_compiles(pattern) == pattern # MalformedPattern

TokEq(tok, word, ignorecase) ==
  IF ignorecase THEN Lower(tok) = Lower(word) ELSE tok = word

RECURSIVE MatchAt(_, _, _, _)
MatchAt(pattern, text, i, ignorecase) ==
  IF pattern = << >> THEN TRUE
  ELSE IF i > Len(text) THEN FALSE
  ELSE IF ~TokEq(text[i], Head(pattern), ignorecase) THEN FALSE
  ELSE IF Len(pattern) = 1 THEN TRUE
  ELSE \E j \in (i + 2)..Len(text) :
         /\ \A k \in (i + 1)..(j - 1) : IsSpace(text[k])
         /\ MatchAt(Tail(pattern), text, j, ignorecase)

\* re.search(pattern, text[, re.IGNORECASE]) is not None, for a pattern that
\* compiles
re_search(pattern, text, ignorecase) ==
  \E alt \in pattern : \E i \in 1..Len(text) : MatchAt(alt, text, i, ignorecase)

\* ------------------------------------------------------------------ floats
\* A float (IEEE 754 binary64) between 0 and 16 is written << h, e >>: its
\* exact value is (h + e / 2^60) / 100, h the nearest hundredth and e the
\* distance from it, a whole number since every such float is a multiple of
\* 2^-60.  A float is a multiple of the ulp of its binade; in these units the
\* ulp is 25 * FloatGrain.
FloatGrain(h, e) ==
  LET at_least(b) == h > b \/ ( h = b /\ e >= 0 )
  IN  IF at_least(800) THEN 8192
      ELSE IF at_least(400) THEN 4096
      ELSE IF at_least(200) THEN 2048
      ELSE IF at_least(100) THEN 1024
      ELSE IF at_least(50) THEN 512
      ELSE IF at_least(25) THEN 256
      ELSE IF h >= 13 THEN 128
      ELSE IF h >= 7 THEN 64
      ELSE IF h >= 4 THEN 32
      ELSE IF h >= 2 THEN 16
      ELSE 8

\* (h * 2^60 + e) mod (25 * grain): 2^60 is 0 mod grain and 1 mod 25
FloatResidue(h, e, grain) ==
  CHOOSE r \in { ( e % grain ) + grain * k : k \in 0..24 } : r % 25 = ( h + e ) % 25

\* the exact number (h + e / 2^60) / 100 rounded to the nearest float, ties
\* to the even one
FloatRound(h, e) ==
  IF h = 0 /\ e = 0 THEN << 0, 0 >>
  ELSE LET grain == FloatGrain(h, e)
           r == FloatResidue(h, e, grain)
           down == << h, e - r >>
           up == << h, e - r + 25 * grain >>
       IN  IF 2 * r < 25 * grain THEN down
           ELSE IF 2 * r > 25 * grain THEN up
           ELSE IF FloatResidue(h, e, 2 * grain) = r THEN down
           ELSE up

\* the float a decimal literal of h hundredths denotes (those up to 2.00
\* worked out once)
FloatOf == [ h \in 0..200 |-> FloatRound(h, 0) ]
fl(h) == IF h \in DOMAIN FloatOf THEN FloatOf[h] ELSE FloatRound(h, 0)

\* a + b, n * a for an int n, a > b, min and max of floats
fadd(a, b) == FloatRound(a[1] + b[1], a[2] + b[2])
fmul(n, a) == FloatRound(n * a[1], n * a[2])
fgt(a, b) == a[1] > b[1] \/ ( a[1] = b[1] /\ a[2] > b[2] )
fmin(a, b) == IF fgt(a, b) THEN b ELSE a
fmax(a, b) == IF fgt(b, a) THEN b ELSE a

\* f"{a:.2f}", in hundredths
fmt2(a) == a[1]

\* -------------------------------------------------------------- detectors
\* content_lower.count(keyword)
count(text, keyword) ==
  Cardinality({ i \in 1..Len(text) : text[i] = keyword })

\* the first loop of _calculate_keyword_score from keyword i on
RECURSIVE KeywordScore(_, _, _, _, _)
KeywordScore(content_lower, keywords, i, keyword_weight, score) ==
  IF i > Len(keywords) THEN score
  ELSE KeywordScore(content_lower, keywords, i + 1, keyword_weight,
                    fadd(score, fmul(count(content_lower, keywords[i]),
                                     fl(keyword_weight))))

\* the second loop: pattern_weight added once for each of n matching patterns
RECURSIVE PatternScore(_, _, _)
PatternScore(n, pattern_weight, score) ==
  IF n = 0 THEN score
  ELSE PatternScore(n - 1, pattern_weight, fadd(score, fl(pattern_weight)))

\* _calculate_keyword_score: every keyword occurrence adds keyword_weight,
\* every pattern that matches adds pattern_weight once, clamped at 1.0
_calculate_keyword_score(content, keywords, patterns, keyword_weight, pattern_weight) ==
  LET content_lower == lower(content)
      score == PatternScore(
                 Cardinality({ p \in patterns : re_search(p, content_lower, FALSE) }),
                 pattern_weight,
                 KeywordScore(content_lower, keywords, 1, keyword_weight, fl(0)))
  IN  fmin(score, fl(100))

\* the ten _detect_* methods as one table: keyword list, pattern list, weights
Detectors ==
  [ violence |->
      [ keywords |-> << "kill", "murder", "death", "blood", "fight", "war", "weapon",
                       "torture", "pain", "suffering", "cruelty", "violence", "beating" >>,
        patterns |-> { { << "how", "to", "kill" >> }, { << "make", "bomb" >> },
                       { << "cause", "pain" >> } },
        keyword_weight |-> 10, pattern_weight |-> 50 ],
    adult |->
      [ keywords |-> << "sex", "erotic", "porn", "nude", "naked", "intimate", "adult" >>,
        patterns |-> { }, keyword_weight |-> 15, pattern_weight |-> 0 ],
    hate_speech |->
      [ keywords |-> << "racism", "fascism", "nazism", "hatred", "discrimination", "bigotry" >>,
        patterns |-> { { << "i", "hate", "all" >> } },
        keyword_weight |-> 20, pattern_weight |-> 70 ],
    illegal |->
      [ keywords |-> << "drugs", "hack", "theft", "fraud", "counterfeit", "piracy" >>,
        patterns |-> { { << "how", "to", "hack" >> }, { << "buy", "drugs" >> },
                       { << "make", "fake", "documents" >> } },
        keyword_weight |-> 10, pattern_weight |-> 60 ],
    medical |->
      [ keywords |-> << "disease", "treatment", "symptom", "diagnosis", "medicine", "doctor",
                       "health", "medical", "therapy", "medication", "surgery" >>,
        patterns |-> { }, keyword_weight |-> 5, pattern_weight |-> 0 ],
    political |->
      [ keywords |-> << "politics", "government", "election", "president", "party",
                       "democracy", "republican", "democrat", "conservative", "liberal" >>,
        patterns |-> { }, keyword_weight |-> 5, pattern_weight |-> 0 ],
    controversial |->
      [ keywords |-> << "controversy", "controversial", "scandal", "protest", "conflict",
                       "debate", "dispute", "argument" >>,
        patterns |-> { }, keyword_weight |-> 5, pattern_weight |-> 0 ],
    educational |->
      [ keywords |-> << "study", "education", "lesson", "lecture", "course", "learning",
                       "tutorial", "guide", "explain", "teach", "academic" >>,
        patterns |-> { }, keyword_weight |-> 10, pattern_weight |-> 0 ],
    technical |->
      [ keywords |-> << "programming", "code", "algorithm", "database", "network",
                       "software", "hardware", "technical", "engineering", "computer" >>,
        patterns |-> { }, keyword_weight |-> 10, pattern_weight |-> 0 ],
    creative |->
      [ keywords |-> << "art", "creative", "poetry", "music", "literature",
                       "story", "novel", "painting", "drawing", "design" >>,
        patterns |-> { }, keyword_weight |-> 10, pattern_weight |-> 0 ] ]

detector(category, content) ==
  LET d == Detectors[category]
  IN  _calculate_keyword_score(content, d.keywords, d.patterns,
                               d.keyword_weight, d.pattern_weight)

\* category_scores of evaluate_content: min(1.0, max(0.0, score)) per category
category_scores(content) ==
  [ c \in Categories |-> fmin(fl(100), fmax(fl(0), detector(c, content))) ]

\* ------------------------------------------------------------------ state
VARIABLES
  now,                  \* datetime.now(), in hours
  current_level,        \* self.current_level
  session_tokens,       \* self.session_tokens: token -> [user_id, level, expiry]
  issued,               \* the tokens generate_auth_token has returned, with
                        \* the expiry each was last given
  temporary_overrides,  \* self.temporary_overrides, in dict insertion order
  policies,             \* self.policies
  appended,             \* the audit rows the last call inserted, per table
  exported,             \* the snapshot export_policy_config last returned
  at_export,            \* current_level and policies as they were at that export
  last,                 \* the last call: operation, arguments, return value
  time,                 \* time.time() of the gateway, in units of ten minutes
  trusted_domains,      \* SafeWebAccess.trusted_domains, in dict insertion order
  request_history,      \* SafeWebAccess.request_history: key -> timestamps
  cache,                \* SafeWebAccess.cache: query fingerprint -> entry
  web_log,              \* the rows the last gateway call handed to the audit
                        \* store, per table
  inflight,             \* per thread: where its call in progress stands, and
                        \* the locals of that call
  policy_changes        \* the policy_changes table as the threads' calls
                        \* write it (followed where calls interleave)

vars ==
  << now, current_level, session_tokens, issued, temporary_overrides, policies,
     appended, exported, at_export, last,
     time, trusted_domains, request_history, cache, web_log,
     inflight, policy_changes >>

\* the state of the gateway, the state of the policy engine
gateway == << time, trusted_domains, request_history, cache, web_log >>
engine ==
  << now, current_level, session_tokens, issued, temporary_overrides, policies,
     appended, exported, at_export >>

snapshot == << exported, at_export >>

\* the calls in progress and what they have written
threads == << inflight, policy_changes >>

\* The audit store is append-only and no modelled operation reads it back:
\* the model keeps, per table, the rows the last call inserted.
NoRows ==
  [ content_evaluations |-> << >>, policy_changes |-> << >>,
    content_overrides |-> << >> ]

\* ----------------------------------------------------------------- inputs
Users == { "u1" }
Durations == { 1 }
NoToken == << >>
TokenIds == Users \X Levels \X (0..MaxTime)

\* the tokens a caller can present: none, or a digest handed out earlier
TokenInputs == { NoToken } \cup DOMAIN issued

PatternBomb == { << "bomb" >> }
Patterns == { PatternBomb, MalformedPattern }

\* sqlite3 binds str, bool and None parameters; an Enum member raises
sqlite_binds(value) == value # ENUM_SAFE

NoCall == [ op |-> "none" ]

\* no snapshot taken yet
NoConfig == [ keys |-> { } ]
NoExport == [ taken |-> FALSE ]

\* ------------------------------------------------- gateway construction
\* A host, a domain entry and a blocked domain are strings, written as the
\* sequence of the pieces they are made of ("www.", "en.", "github.com", ...);
\* a substring is a contiguous run of pieces.
\* self.trusted_domains of SafeWebAccess.__init__, trust in hundredths
InitialTrustedDomains ==
  << [ domain |-> << "wikipedia.org" >>, type |-> "encyclopedia", trust |-> 90 ],
     [ domain |-> << "en.", "wikipedia.org" >>, type |-> "encyclopedia", trust |-> 90 ],
     [ domain |-> << "github.com" >>, type |-> "code_repository", trust |-> 80 ],
     [ domain |-> << "stackoverflow.com" >>, type |-> "technical_qa", trust |-> 80 ],
     [ domain |-> << "arxiv.org" >>, type |-> "scientific", trust |-> 90 ],
     [ domain |-> << "news.", "ycombinator.com" >>, type |-> "tech_news", trust |-> 70 ],
     [ domain |-> << "medium.com" >>, type |-> "articles", trust |-> 70 ] >>

\* self.blocked_domains
blocked_domains ==
  { << "4chan.org" >>, << "8kun.top" >>, << "gab.com" >>, << "parler.com" >> }

\* no row handed to the gateway's audit store
NoWebRows == [ web_requests |-> << >>, blocked_attempts |-> << >> ]

\* SafeWebAccess.__init__
SafeWebAccessInit ==
  /\ time = 0
  /\ trusted_domains = InitialTrustedDomains
  /\ request_history = << >>
  /\ cache = << >>
  /\ web_log = NoWebRows

\* the threads that call into one engine
MaxThreads == 2
Threads == 1..MaxThreads

\* a thread between calls; calls counts the calls it has begun
Idle(calls) == [ pc |-> "idle", calls |-> calls ]

\* no call in progress, an empty policy_changes table
NoThreads ==
  /\ inflight = [ t \in Threads |-> Idle(0) ]
  /\ policy_changes = << >>

\* ------------------------------------------------------------ construction
Init ==
  /\ now = 0
  /\ current_level = ENUM_SAFE
  /\ session_tokens = << >>
  /\ issued = << >>
  /\ temporary_overrides = << >>
  /\ policies = InitialPolicies
  /\ appended = NoRows
  /\ exported = NoConfig
  /\ at_export = NoExport
  /\ last = NoCall
  /\ SafeWebAccessInit
  /\ NoThreads

\* the clock advances between calls
Tick ==
  /\ now < MaxTime
  /\ now' = now + 1
  /\ appended' = NoRows
  /\ last' = NoCall
  /\ UNCHANGED snapshot
  /\ UNCHANGED gateway
  /\ UNCHANGED threads
  /\ UNCHANGED << current_level, session_tokens, issued, temporary_overrides, policies >>

\* ----------------------------------------------------------- authorization
\* generate_auth_token: the digest of user_id:level:now, bound to level and
\* expiry in session_tokens
GenerateAuthToken(user_id, level, duration_hours) ==
  LET token == << user_id, level, now >>
      expiry == now + duration_hours
  IN  /\ \/ token \in DOMAIN session_tokens
         \/ Cardinality(DOMAIN session_tokens) < MaxTokens
      /\ session_tokens' =
           [ t \in DOMAIN session_tokens \cup { token } |->
               IF t = token
                 THEN [ user_id |-> user_id, level |-> level, expiry |-> expiry ]
                 ELSE session_tokens[t] ]
      /\ issued' = [ t \in DOMAIN issued \cup { token } |->
                        IF t = token THEN expiry ELSE issued[t] ]
      /\ last' = [ op |-> "generate_auth_token", token |-> token, ret |-> token ]
      /\ appended' = NoRows
      /\ UNCHANGED snapshot
      /\ UNCHANGED gateway
      /\ UNCHANGED threads
      /\ UNCHANGED << now, current_level, temporary_overrides, policies >>

\* datetime.now() > session['expiry']
token_expired(t, expiry) == t > expiry

\* level_sufficient with > in place of >=
level_sufficient_strict(token_level, required_level) ==
  level_hierarchy(token_level) > level_hierarchy(required_level)

\* level_hierarchy.get(token_level, 0) >= level_hierarchy.get(required_level, 0)
level_sufficient(token_level, required_level) ==
  level_hierarchy(token_level) >= level_hierarchy(required_level)

\* evict without the del: the expired session stays in the table
evict_nothing(tokens, token) == tokens

\* del self.session_tokens[token]
evict(tokens, token) == [ k \in DOMAIN tokens \ { token } |-> tokens[k] ]

\* verify_authorization as a function of the session table and the clock:
\* the return value and the session table it leaves
verify_authorization(tokens, token, required_level, t) ==
  IF token = NoToken
    THEN [ ret |-> FALSE, session_tokens |-> tokens ]
  ELSE IF token \in DOMAIN tokens
    THEN IF token_expired(t, tokens[token].expiry)
           THEN [ ret |-> FALSE, session_tokens |-> evict(tokens, token) ]
           ELSE [ ret |-> level_sufficient(tokens[token].level, required_level),
                  session_tokens |-> tokens ]
  ELSE [ ret |-> FALSE, session_tokens |-> tokens ]

VerifyAuthorization(token, required_level) ==
  LET v == verify_authorization(session_tokens, token, required_level, now)
  IN  /\ session_tokens' = v.session_tokens
      /\ last' = [ op |-> "verify_authorization", token |-> token,
                   level |-> required_level, ret |-> v.ret ]
      /\ appended' = NoRows
      /\ UNCHANGED snapshot
      /\ UNCHANGED gateway
      /\ UNCHANGED threads
      /\ UNCHANGED << now, current_level, issued, temporary_overrides, policies >>

\* requires_authorization with "research" left out of the list
requires_authorization_top_only(level) == level \in { "unrestricted" }

\* level in ["research", "unrestricted"]
requires_authorization(level) == level \in { "research", "unrestricted" }

\* set_policy_level; db_ok is whether the sqlite3 INSERT of log_policy_change
\* goes through
\* a refused call that falls back to the lowest level
assigned_level_reset(current, level, ok) == IF ok THEN level ELSE "safe"

\* self.current_level after the call: level once validity and authorization
\* are passed, untouched on every early return
assigned_level(current, level, ok) == IF ok THEN level ELSE current

SetPolicyLevel(level, auth_token, db_ok) ==
  LET old_level == current_level
      v == IF requires_authorization(level)
             THEN verify_authorization(session_tokens, auth_token, level, now)
             ELSE [ ret |-> TRUE, session_tokens |-> session_tokens ]
      ok == level \in DOMAIN policies /\ v.ret
      logged == ok /\ db_ok /\ sqlite_binds(old_level) /\ sqlite_binds(level)
  IN  /\ session_tokens' =
           IF level \in DOMAIN policies THEN v.session_tokens ELSE session_tokens
      /\ current_level' = assigned_level(current_level, level, ok)
      /\ appended' =
           IF logged
             THEN [ NoRows EXCEPT !.policy_changes =
                      << [ old_level |-> old_level, new_level |-> level ] >> ]
             ELSE NoRows
      /\ last' = [ op |-> "set_policy_level", token |-> auth_token, level |-> level,
                   ret |-> ok ]
      /\ UNCHANGED snapshot
      /\ UNCHANGED gateway
      /\ UNCHANGED threads
      /\ UNCHANGED << now, issued, temporary_overrides, policies >>

\* ---------------------------------------------------------------- overrides
\* position of pattern among the keys of the overrides dict, 0 when absent
KeyIndex(overrides, pattern) ==
  IF \E i \in 1..Len(overrides) : overrides[i].pattern = pattern
    THEN CHOOSE i \in 1..Len(overrides) : overrides[i].pattern = pattern
    ELSE 0

\* self.temporary_overrides[pattern] = {...}: a new key goes last, an
\* existing key keeps its place
DictSet(overrides, pattern, entry) ==
  IF KeyIndex(overrides, pattern) = 0
    THEN Append(overrides, entry)
    ELSE [ overrides EXCEPT ![KeyIndex(overrides, pattern)] = entry ]

\* del self.temporary_overrides[pattern] for every pattern of expired
DictDel(overrides, expired) ==
  SelectSeq(overrides, LAMBDA e : e.pattern \notin expired)

\* override_required_level one rank too low
override_required_level_low == "educational"

\* the level add_temporary_override asks verify_authorization for
override_required_level == "research"

\* add_temporary_override; db_ok is whether the INSERT INTO content_overrides
\* goes through
AddTemporaryOverride(pattern, duration_hours, auth_token, db_ok) ==
  LET v == verify_authorization(session_tokens, auth_token,
                                override_required_level, now)
      expiry == now + duration_hours
      entry == [ pattern |-> pattern, expiry |-> expiry ]
  IN  /\ session_tokens' = v.session_tokens
      /\ temporary_overrides' =
           IF v.ret THEN DictSet(temporary_overrides, pattern, entry)
                    ELSE temporary_overrides
      /\ appended' =
           IF v.ret /\ db_ok
             THEN [ NoRows EXCEPT !.content_overrides =
                      << [ content_pattern |-> pattern, expiry |-> expiry ] >> ]
             ELSE NoRows
      /\ last' = [ op |-> "add_temporary_override", token |-> auth_token,
                   pattern |-> pattern, ret |-> v.ret /\ db_ok ]
      /\ UNCHANGED snapshot
      /\ UNCHANGED gateway
      /\ UNCHANGED threads
      /\ UNCHANGED << now, current_level, issued, policies >>

\* the loop of check_temporary_overrides from entry i on, expired being the
\* expired_patterns list so far: the return value and the dict it leaves.
\* re.search raising re.error leaves the loop through the except clause.
RECURSIVE ScanOverrides(_, _, _, _, _)
ScanOverrides(overrides, i, expired, content, t) ==
  IF i > Len(overrides)
    THEN [ ret |-> FALSE, temporary_overrides |-> DictDel(overrides, expired) ]
  ELSE IF t > overrides[i].expiry
    THEN ScanOverrides(overrides, i + 1, expired \cup { overrides[i].pattern }, content, t)
  ELSE IF ~re_compiles(overrides[i].pattern)
    THEN [ ret |-> FALSE, temporary_overrides |-> overrides ]
  ELSE IF re_search(overrides[i].pattern, content, TRUE)
    THEN [ ret |-> TRUE, temporary_overrides |-> overrides ]
  ELSE ScanOverrides(overrides, i + 1, expired, content, t)

check_temporary_overrides(overrides, content, t) ==
  ScanOverrides(overrides, 1, { }, content, t)

\* --------------------------------------------------------------- evaluation
\* category_scores of every text of Texts, computed once
TextScores == [ c \in Texts |-> category_scores(c) ]

\* the score a failed detector is given, were it the highest one
detector_error_score_full(category) == fl(100)

\* except Exception: category_scores[category] = 0.0
detector_error_score(category) == fl(0)

\* the loop over the detectors when the calls of those in raising raise
\* (a fault of the run - MemoryError, RecursionError, a detector replaced
\* in a subclass - not a property of the text)
scores_of(content, raising) ==
  [ c \in Categories |->
      IF c \in raising THEN detector_error_score(c) ELSE TextScores[content][c] ]

\* the faults the runs are put under
DetectorFaults == { { }, { "violence" } }

\* the comparison with >= in place of >
exceeds_inclusive(score, threshold) == ~fgt(fl(threshold), score)

\* score > threshold, the threshold a float of that many hundredths
exceeds(score, threshold) == fgt(score, fl(threshold))

\* the violations list: one entry per category, in detector order, whose score
\* is above the threshold, unless an override applies; an entry is the text
\* f"{category}: {score:.2f} > {threshold:.2f}"
RECURSIVE ViolationsFrom(_, _, _, _)
ViolationsFrom(i, scores, current_policy, override_applied) ==
  IF i > Len(CategoryOrder) THEN << >>
  ELSE LET category == CategoryOrder[i]
           score == scores[category]
           threshold == IF category \in DOMAIN current_policy
                          THEN current_policy[category] ELSE 0
           rest == ViolationsFrom(i + 1, scores, current_policy, override_applied)
       IN  IF exceeds(score, threshold) /\ ~override_applied
             THEN << << category, fmt2(score), fmt2(fl(threshold)) >> >> \o rest
             ELSE rest

\* is_empty_content without the strip(): blank text is not taken as empty
is_empty_content_unstripped(content) == content = << >>

\* not content or len(content.strip()) == 0
is_empty_content(content) == content = << >> \/ Len(strip(content)) = 0

EmptyContentResult(level) ==
  [ allowed |-> FALSE, policy_level |-> level, category_scores |-> << >>,
    violations |-> << << "Empty content" >> >>,
    override_applied |-> FALSE, block_reason |-> "Empty or invalid content" ]

EvaluationErrorResult(level) ==
  [ allowed |-> FALSE, policy_level |-> level, category_scores |-> << >>,
    violations |-> << << "Evaluation error" >> >>,
    override_applied |-> FALSE, block_reason |-> "System error during evaluation" ]

\* evaluate_content as a function of the engine state: the result, the
\* overrides dict it leaves, and whether log_content_evaluation was reached
evaluate_content(content, raising, level, table, overrides, t) ==
  IF is_empty_content(content)
    THEN [ result |-> EmptyContentResult(level), temporary_overrides |-> overrides,
           log |-> FALSE ]
  ELSE IF ~utf8_encodable(content)
    THEN [ result |-> EvaluationErrorResult(level), temporary_overrides |-> overrides,
           log |-> FALSE ]
  ELSE LET scores == scores_of(content, raising)
           current_policy == IF level \in DOMAIN table THEN table[level]
                                                        ELSE table["safe"]
           chk == check_temporary_overrides(overrides, content, t)
           violations == ViolationsFrom(1, scores, current_policy, chk.ret)
           allowed == violations = << >>
       IN  [ result |-> [ allowed |-> allowed, policy_level |-> level,
                          category_scores |-> scores,
                          violations |-> violations, override_applied |-> chk.ret,
                          block_reason |-> IF allowed THEN "" ELSE "violations" ],
             temporary_overrides |-> chk.temporary_overrides,
             log |-> TRUE ]

\* log_content_evaluation: the row it inserts, or no row when the INSERT
\* raises (db_ok false, or a parameter sqlite3 does not bind)
log_content_evaluation(rows, result, db_ok) ==
  IF db_ok /\ sqlite_binds(result.policy_level)
    THEN Append(rows, [ policy_level |-> result.policy_level,
                        final_decision |-> result.allowed,
                        override_applied |-> result.override_applied ])
    ELSE rows

EvaluateContent(content, raising, db_ok) ==
  \E e \in { evaluate_content(content, raising, current_level, policies,
                               temporary_overrides, now) } :
      /\ temporary_overrides' = e.temporary_overrides
      /\ appended' =
           [ NoRows EXCEPT !.content_evaluations =
               IF e.log THEN log_content_evaluation(<< >>, e.result, db_ok) ELSE << >> ]
      /\ last' = [ op |-> "evaluate_content", content |-> content,
                   raising |-> raising, ret |-> e.result ]
      /\ UNCHANGED snapshot
      /\ UNCHANGED gateway
      /\ UNCHANGED threads
      /\ UNCHANGED << now, current_level, session_tokens, issued, policies >>

\* ---------------------------------------------------------- specification
\* Spec: the engine driven on its authorization surface (every level of
\* token, every target level, one override pattern).
Next ==
  \/ Tick
  \/ \E u \in Users, l \in Levels, d \in Durations : GenerateAuthToken(u, l, d)
  \/ \E t \in TokenInputs, l \in Levels : VerifyAuthorization(t, l)
  \/ \E l \in Levels \cup { BogusLevel }, t \in TokenInputs, ok \in BOOLEAN :
       SetPolicyLevel(l, t, ok)
  \/ \E d \in Durations, t \in TokenInputs, ok \in BOOLEAN :
       AddTemporaryOverride(PatternBomb, d, t, ok)

Spec == Init /\ [][Next]_vars

\* SpecEval: the engine driven on its evaluation surface (every text, every
\* override pattern, every level; tokens of the top level only).
NextEval ==
  \/ Tick
  \/ \E u \in Users, d \in Durations : GenerateAuthToken(u, "unrestricted", d)
  \/ \E l \in Levels, t \in TokenInputs, ok \in BOOLEAN : SetPolicyLevel(l, t, ok)
  \/ \E p \in Patterns, d \in Durations, t \in TokenInputs, ok \in BOOLEAN :
       AddTemporaryOverride(p, d, t, ok)
  \/ \E c \in Texts, f \in DetectorFaults, ok \in BOOLEAN : EvaluateContent(c, f, ok)

SpecEval == Init /\ [][NextEval]_vars

\* ================================================ content_policy_module.py
\* The variant of the engine that carries export_policy_config and
\* import_policy_config.  Levels and categories are Enum members throughout:
\* a member is written by its repr, its .value is the string of Levels or
\* Categories, and ContentLevel(value) / ContentCategory(value) look a member
\* up by value and raise ValueError when there is none.
LevelMembers ==
  << "ContentLevel.SAFE", "ContentLevel.EDUCATIONAL", "ContentLevel.RESEARCH",
     "ContentLevel.UNRESTRICTED" >>

CategoryMembers ==
  << "ContentCategory.VIOLENCE", "ContentCategory.ADULT", "ContentCategory.HATE_SPEECH",
     "ContentCategory.ILLEGAL", "ContentCategory.MEDICAL", "ContentCategory.POLITICAL",
     "ContentCategory.CONTROVERSIAL", "ContentCategory.EDUCATIONAL",
     "ContentCategory.TECHNICAL", "ContentCategory.CREATIVE" >>

LevelValues == << "safe", "educational", "research", "unrestricted" >>

Range(seq) == { seq[i] : i \in 1..Len(seq) }
IndexOf(seq, x) == CHOOSE i \in 1..Len(seq) : seq[i] = x

\* member.value
level_value(member) == LevelValues[IndexOf(LevelMembers, member)]
category_value(member) == CategoryOrder[IndexOf(CategoryMembers, member)]

\* ContentLevel(value) with two members swapped
content_level_swapped(value) ==
  LevelMembers[5 - IndexOf(LevelValues, value)]

\* ContentLevel(value), ContentCategory(value), for a value that has a member
content_level(value) == LevelMembers[IndexOf(LevelValues, value)]
content_category(value) == CategoryMembers[IndexOf(CategoryOrder, value)]

\* self.policies of __init__: the same thresholds, keyed by members
EnumPolicies ==
  [ l \in Range(LevelMembers) |->
      [ c \in Range(CategoryMembers) |->
          InitialPolicies[level_value(l)][category_value(c)] ] ]

\* level_hierarchy[level] of verify_authorization
enum_level_hierarchy(member) == IndexOf(LevelMembers, member) - 1

\* verify_authorization of content_policy_module.py
cpm_verify_authorization(tokens, token, required_level, t) ==
  IF token = NoToken
    THEN [ ret |-> FALSE, session_tokens |-> tokens ]
  ELSE IF token \in DOMAIN tokens
    THEN IF token_expired(t, tokens[token].expiry)
           THEN [ ret |-> FALSE, session_tokens |-> evict(tokens, token) ]
           ELSE [ ret |-> enum_level_hierarchy(tokens[token].level)
                            >= enum_level_hierarchy(required_level),
                  session_tokens |-> tokens ]
  ELSE [ ret |-> FALSE, session_tokens |-> tokens ]

\* generate_auth_token of content_policy_module.py: the digest is taken over
\* level.value, the session keeps the member
CpmGenerateAuthToken(user_id, level, duration_hours) ==
  LET token == << user_id, level_value(level), now >>
      expiry == now + duration_hours
  IN  /\ \/ token \in DOMAIN session_tokens
         \/ Cardinality(DOMAIN session_tokens) < MaxTokens
      /\ session_tokens' =
           [ t \in DOMAIN session_tokens \cup { token } |->
               IF t = token
                 THEN [ user_id |-> user_id, level |-> level, expiry |-> expiry ]
                 ELSE session_tokens[t] ]
      /\ issued' = [ t \in DOMAIN issued \cup { token } |->
                        IF t = token THEN expiry ELSE issued[t] ]
      /\ last' = [ op |-> "generate_auth_token", token |-> token, ret |-> token ]
      /\ appended' = NoRows
      /\ UNCHANGED snapshot
      /\ UNCHANGED gateway
      /\ UNCHANGED threads
      /\ UNCHANGED << now, current_level, temporary_overrides, policies >>

\* set_policy_level of content_policy_module.py as a function of the state:
\* return value, level and session table it leaves, policy_changes rows
cpm_set_policy_level(level, tokens, target, auth_token, t, db_ok) ==
  LET v == IF target \in { "ContentLevel.RESEARCH", "ContentLevel.UNRESTRICTED" }
             THEN cpm_verify_authorization(tokens, auth_token, target, t)
             ELSE [ ret |-> TRUE, session_tokens |-> tokens ]
  IN  [ ret |-> v.ret,
        current_level |-> IF v.ret THEN target ELSE level,
        session_tokens |-> v.session_tokens,
        rows |-> IF v.ret /\ db_ok
                   THEN << [ old_level |-> level_value(level),
                             new_level |-> level_value(target) ] >>
                   ELSE << >> ]

CpmSetPolicyLevel(target, auth_token, db_ok) ==
  LET r == cpm_set_policy_level(current_level, session_tokens, target, auth_token,
                                now, db_ok)
  IN  /\ current_level' = r.current_level
      /\ session_tokens' = r.session_tokens
      /\ appended' = [ NoRows EXCEPT !.policy_changes = r.rows ]
      /\ last' = [ op |-> "set_policy_level", token |-> auth_token, level |-> target,
                   ret |-> r.ret ]
      /\ UNCHANGED snapshot
      /\ UNCHANGED gateway
      /\ UNCHANGED threads
      /\ UNCHANGED << now, issued, temporary_overrides, policies >>

\* add_temporary_override of content_policy_module.py: a failed INSERT is
\* logged and the call still returns True
CpmAddTemporaryOverride(pattern, duration_hours, auth_token, db_ok) ==
  LET v == cpm_verify_authorization(session_tokens, auth_token,
                                    "ContentLevel.RESEARCH", now)
      expiry == now + duration_hours
      entry == [ pattern |-> pattern, expiry |-> expiry ]
  IN  /\ session_tokens' = v.session_tokens
      /\ temporary_overrides' =
           IF v.ret THEN DictSet(temporary_overrides, pattern, entry)
                    ELSE temporary_overrides
      /\ appended' =
           IF v.ret /\ db_ok
             THEN [ NoRows EXCEPT !.content_overrides =
                      << [ content_pattern |-> pattern, expiry |-> expiry ] >> ]
             ELSE NoRows
      /\ last' = [ op |-> "add_temporary_override", token |-> auth_token,
                   pattern |-> pattern, ret |-> v.ret ]
      /\ UNCHANGED snapshot
      /\ UNCHANGED gateway
      /\ UNCHANGED threads
      /\ UNCHANGED << now, current_level, issued, policies >>

\* ------------------------------------------------------- export and import
\* A config is the dict export_policy_config returns: keys is the set of its
\* keys, policies the items of its "policies" dict in iteration order, each a
\* pair of a level string and the items of that level's dict.
export_policy_config(level, table, overrides) ==
  [ keys |-> { "current_level", "policies", "active_overrides", "export_time" },
    current_level |-> level_value(level),
    policies |->
      [ i \in 1..Len(LevelMembers) |->
          << level_value(LevelMembers[i]),
             [ j \in 1..Len(CategoryMembers) |->
                 << category_value(CategoryMembers[j]),
                    table[LevelMembers[i]][CategoryMembers[j]] >> ] >> ],
    active_overrides |->
      [ i \in 1..Len(overrides) |->
          [ pattern |-> overrides[i].pattern, expiry |-> overrides[i].expiry ] ] ]

ExportPolicyConfig ==
  /\ exported' = export_policy_config(current_level, policies, temporary_overrides)
  /\ at_export' = [ taken |-> TRUE, current_level |-> current_level,
                    policies |-> policies ]
  /\ last' = [ op |-> "export_policy_config" ]
  /\ appended' = NoRows
  /\ UNCHANGED gateway
  /\ UNCHANGED threads
  /\ UNCHANGED << now, current_level, session_tokens, issued, temporary_overrides,
                  policies >>

\* the inner loop of import_policy_config over the items of one level's dict:
\* ok is false when ContentCategory(category_str) raised
RECURSIVE ImportCategories(_, _, _, _)
ImportCategories(table, level, items, j) ==
  IF j > Len(items) THEN [ ok |-> TRUE, policies |-> table ]
  ELSE IF items[j][1] \notin Categories THEN [ ok |-> FALSE, policies |-> table ]
  ELSE ImportCategories(
         [ table EXCEPT ![level][content_category(items[j][1])] = items[j][2] ],
         level, items, j + 1)

\* the outer loop over the items of config["policies"]: ok is false when
\* ContentLevel(level_str) or the inner loop raised
RECURSIVE ImportLevels(_, _, _)
ImportLevels(table, items, i) ==
  IF i > Len(items) THEN [ ok |-> TRUE, policies |-> table ]
  ELSE IF items[i][1] \notin Levels THEN [ ok |-> FALSE, policies |-> table ]
  ELSE LET inner == ImportCategories(table, content_level(items[i][1]), items[i][2], 1)
       IN  IF inner.ok THEN ImportLevels(inner.policies, items, i + 1)
                       ELSE inner

\* import_policy_config with the threshold import open to research tokens
thresholds_required_level_low == "ContentLevel.RESEARCH"

\* the level import_policy_config asks for before it rewrites thresholds
thresholds_required_level == "ContentLevel.UNRESTRICTED"

\* import_policy_config as a function of the state: return value and the
\* level, session table, thresholds and policy_changes rows it leaves
import_policy_config(level, tokens, table, config, auth_token, t, db_ok) ==
  LET v == cpm_verify_authorization(tokens, auth_token, "ContentLevel.RESEARCH", t)
      unchanged == [ ret |-> FALSE, current_level |-> level,
                     session_tokens |-> v.session_tokens, policies |-> table,
                     rows |-> << >> ]
  IN  IF ~v.ret THEN unchanged
      ELSE IF "current_level" \in config.keys /\ config.current_level \notin Levels
        THEN unchanged
      ELSE LET sp == IF "current_level" \in config.keys
                       THEN cpm_set_policy_level(level, v.session_tokens,
                                                 content_level(config.current_level),
                                                 auth_token, t, db_ok)
                       ELSE [ ret |-> FALSE, current_level |-> level,
                              session_tokens |-> v.session_tokens, rows |-> << >> ]
               edit == /\ "policies" \in config.keys
                       /\ cpm_verify_authorization(sp.session_tokens, auth_token,
                                                   thresholds_required_level, t).ret
               imp == IF edit THEN ImportLevels(table, config.policies, 1)
                              ELSE [ ok |-> TRUE, policies |-> table ]
           IN  [ ret |-> imp.ok, current_level |-> sp.current_level,
                 session_tokens |-> sp.session_tokens, policies |-> imp.policies,
                 rows |-> sp.rows ]

ImportPolicyConfig(config, auth_token, db_ok) ==
  LET r == import_policy_config(current_level, session_tokens, policies, config,
                                auth_token, now, db_ok)
  IN  /\ current_level' = r.current_level
      /\ session_tokens' = r.session_tokens
      /\ policies' = r.policies
      /\ appended' = [ NoRows EXCEPT !.policy_changes = r.rows ]
      /\ last' = [ op |-> "import_policy_config", token |-> auth_token,
                   config |-> config, ret |-> r.ret,
                   changed |-> r.policies # policies \/ r.current_level # current_level ]
      /\ UNCHANGED snapshot
      /\ UNCHANGED gateway
      /\ UNCHANGED threads
      /\ UNCHANGED << now, issued, temporary_overrides >>

\* the configs an operator imports besides a snapshot taken earlier: an edit
\* of one threshold, an edit followed by an unknown level, and an edit to a
\* threshold above 1.0
ConfigRelax ==
  [ keys |-> { "policies" },
    policies |-> << << "safe", << << "violence", 90 >> >> >> >> ]

ConfigUnknownLevel ==
  [ keys |-> { "current_level", "policies" },
    current_level |-> "educational",
    policies |-> << << "safe", << << "violence", 50 >> >> >>,
                    << BogusLevel, << << "violence", 50 >> >> >> >> ]

ConfigOutOfRange ==
  [ keys |-> { "policies" },
    policies |-> << << "safe", << << "violence", 150 >> >> >> >> ]

ImportConfigs ==
  { ConfigRelax, ConfigUnknownLevel, ConfigOutOfRange }
    \cup ( IF at_export.taken THEN { exported } ELSE { } )

\* SpecCfg: the engine of content_policy_module.py
InitCfg ==
  /\ now = 0
  /\ current_level = "ContentLevel.SAFE"
  /\ session_tokens = << >>
  /\ issued = << >>
  /\ temporary_overrides = << >>
  /\ policies = EnumPolicies
  /\ appended = NoRows
  /\ exported = NoConfig
  /\ at_export = NoExport
  /\ last = NoCall
  /\ SafeWebAccessInit
  /\ NoThreads

NextCfg ==
  \/ Tick
  \/ \E u \in Users, d \in Durations,
        l \in { "ContentLevel.RESEARCH", "ContentLevel.UNRESTRICTED" } :
       CpmGenerateAuthToken(u, l, d)
  \/ \E l \in Range(LevelMembers), t \in TokenInputs : CpmSetPolicyLevel(l, t, TRUE)
  \/ ExportPolicyConfig
  \/ \E c \in ImportConfigs, t \in TokenInputs : ImportPolicyConfig(c, t, TRUE)

SpecCfg == InitCfg /\ [][NextCfg]_vars

\* ------------------------------------------- restoring into a new engine
\* AdaptiveContentPolicy(): a new engine is constructed; the dict an earlier
\* export returned and the tokens handed out earlier stay with the caller
Construct ==
  /\ current_level' = "ContentLevel.SAFE"
  /\ session_tokens' = << >>
  /\ temporary_overrides' = << >>
  /\ policies' = EnumPolicies
  /\ appended' = NoRows
  /\ last' = [ op |-> "__init__" ]
  /\ UNCHANGED gateway
  /\ UNCHANGED threads
  /\ UNCHANGED << now, issued, exported, at_export >>

\* SpecRestore: a snapshot is exported from one engine of
\* content_policy_module.py and imported into the next one
NextRestore ==
  \/ Tick
  \/ \E u \in Users, d \in Durations,
        l \in { "ContentLevel.RESEARCH", "ContentLevel.UNRESTRICTED" } :
       CpmGenerateAuthToken(u, l, d)
  \/ \E d \in Durations, t \in TokenInputs, ok \in BOOLEAN :
       CpmAddTemporaryOverride(PatternBomb, d, t, ok)
  \/ ExportPolicyConfig
  \/ /\ at_export.taken
     /\ \E t \in TokenInputs : ImportPolicyConfig(exported, t, TRUE)
  \/ Construct

SpecRestore == InitCfg /\ [][NextRestore]_vars

\* min and max of ints (slice ends, the longer window)
Min(a, b) == IF a < b THEN a ELSE b
Max(a, b) == IF a > b THEN a ELSE b

\* ============================================== the web-access gateway
\* ------------------------------------------------------------ strings
\* sub in s
Contains(sub, s) ==
  \E i \in 0..(Len(s) - Len(sub)) : SubSeq(s, i + 1, i + Len(sub)) = sub

\* s.startswith(prefix)
StartsWith(s, prefix) ==
  Len(prefix) <= Len(s) /\ SubSeq(s, 1, Len(prefix)) = prefix

\* ----------------------------------------------------------------- URLs
\* A URL is what urlparse makes of it: scheme and netloc.  urlparse raises
\* ValueError on an unbalanced bracket in the netloc.
Url(scheme, netloc) == [ scheme |-> scheme, netloc |-> netloc ]

UrlWikiCat == Url("https", << "en.", "wikipedia.org" >>)
UrlGithubSearch == Url("https", << "github.com" >>)
UrlStackSearch == Url("https", << "stackoverflow.com" >>)
UrlWwwGithub == Url("https", << "www.", "GitHub.com" >>)
UrlPrefixed == Url("https", << "github.com", ".evil.net" >>)
UrlBlocked == Url("https", << "www.", "4chan.org" >>)
UrlBlockedTrusted == Url("https", << "4chan.org", ".", "github.com" >>)
UrlUnknown == Url("https", << "example.com" >>)
UrlNone == Url("", << >>)
UrlMalformed == Url("http", << "[" >>)

urlparse_raises(url) == url.netloc = << "[" >>

\* parsed.netloc.lower(), then the "www." prefix removed
domain_of(url) ==
  LET domain == lower(url.netloc)
  IN  IF StartsWith(domain, << "www." >>) THEN Tail(domain) ELSE domain

\* ---------------------------------------------------------- domain trust
\* the blacklist test with equality in place of the substring test
domain_blocked_exact(domain) == domain \in blocked_domains

\* any(blocked_domain in domain for blocked_domain in self.blocked_domains)
domain_blocked(domain) == \E b \in blocked_domains : Contains(b, domain)

\* the entries of the trusted table that the whitelist loop accepts for domain
TrustedMatches(table, domain) ==
  { i \in 1..Len(table) : Contains(table[i].domain, domain) }

\* is_trusted_domain: (trusted, trust score, reason)
is_trusted_domain(table, url) ==
  IF urlparse_raises(url)
    THEN [ trusted |-> FALSE, trust |-> 0, reason |-> << "Error parsing domain" >> ]
  ELSE LET domain == domain_of(url)
           hits == TrustedMatches(table, domain)
       IN  IF domain_blocked(domain)
             THEN [ trusted |-> FALSE, trust |-> 0, reason |-> << "Domain is blocked" >> ]
           ELSE IF hits # { }
             THEN LET i == CHOOSE k \in hits : \A j \in hits : k <= j
                  IN  [ trusted |-> TRUE, trust |-> table[i].trust,
                        reason |-> << "Trusted domain", table[i].type >> ]
           ELSE [ trusted |-> FALSE, trust |-> 20,
                  reason |-> << "Domain is not in trusted list" >> ]

IsTrustedDomain(url) ==
  /\ last' = [ op |-> "is_trusted_domain", url |-> url,
               ret |-> is_trusted_domain(trusted_domains, url) ]
  /\ web_log' = NoWebRows
  /\ UNCHANGED << time, trusted_domains, request_history, cache >>
  /\ UNCHANGED engine
  /\ UNCHANGED threads

\* position of domain in the table, 0 when it is no key
DomainIndex(table, domain) ==
  IF \E i \in 1..Len(table) : table[i].domain = domain
    THEN CHOOSE i \in 1..Len(table) : table[i].domain = domain
    ELSE 0

\* the score test without its upper end
trust_score_valid_open(trust_score) == 0 <= trust_score

\* 0.0 <= trust_score <= 1.0
trust_score_valid(trust_score) == 0 <= trust_score /\ trust_score <= 100

\* add_trusted_domain: a dict assignment keeps the position of a key that
\* exists and appends a new one
add_trusted_domain(table, domain, domain_type, trust_score) ==
  IF trust_score_valid(trust_score) /\ domain # << >>
    THEN LET entry == [ domain |-> domain, type |-> domain_type, trust |-> trust_score ]
             i == DomainIndex(table, domain)
         IN  [ ret |-> TRUE,
               trusted_domains |-> IF i = 0 THEN Append(table, entry)
                                            ELSE [ table EXCEPT ![i] = entry ] ]
    ELSE [ ret |-> FALSE, trusted_domains |-> table ]

AddTrustedDomain(domain, domain_type, trust_score) ==
  LET r == add_trusted_domain(trusted_domains, domain, domain_type, trust_score)
  IN  /\ trusted_domains' = r.trusted_domains
      /\ last' = [ op |-> "add_trusted_domain", domain |-> domain,
                   trust |-> trust_score, ret |-> r.ret ]
      /\ web_log' = NoWebRows
      /\ UNCHANGED << time, request_history, cache >>
      /\ UNCHANGED engine
      /\ UNCHANGED threads

\* remove_trusted_domain
remove_trusted_domain(table, domain) ==
  LET i == DomainIndex(table, domain)
  IN  IF i # 0
        THEN [ ret |-> TRUE,
               trusted_domains |-> SubSeq(table, 1, i - 1) \o SubSeq(table, i + 1, Len(table)) ]
        ELSE [ ret |-> FALSE, trusted_domains |-> table ]

RemoveTrustedDomain(domain) ==
  LET r == remove_trusted_domain(trusted_domains, domain)
  IN  /\ trusted_domains' = r.trusted_domains
      /\ last' = [ op |-> "remove_trusted_domain", domain |-> domain, ret |-> r.ret ]
      /\ web_log' = NoWebRows
      /\ UNCHANGED << time, request_history, cache >>
      /\ UNCHANGED engine
      /\ UNCHANGED threads

\* the URLs, domains and scores the callers pass
TrustUrls ==
  { UrlWikiCat, UrlGithubSearch, UrlWwwGithub, UrlPrefixed, UrlBlocked,
    UrlBlockedTrusted, UrlUnknown, UrlNone, UrlMalformed }

DomainInputs ==
  { << "github.com" >>, << "en.", "wikipedia.org" >>, << "wikipedia.org" >>,
    << "4chan.org" >>, << >> }

TrustInputs == { -10, 40, 100, 110 }

\* SpecTrust: the trusted-domain table of SafeWebAccess and its lookups
NextTrust ==
  \/ \E d \in DomainInputs, t \in TrustInputs : AddTrustedDomain(d, "custom", t)
  \/ \E d \in DomainInputs : RemoveTrustedDomain(d)
  \/ \E u \in TrustUrls : IsTrustedDomain(u)

SpecTrust == Init /\ [][NextTrust]_vars

\* ------------------------------------------------------- query safety
\* a phrase of words separated by single blanks
RECURSIVE phrase(_)
phrase(words) ==
  IF Len(words) <= 1 THEN words
  ELSE << Head(words), Blank >> \o phrase(Tail(words))

\* self.safety_filters
safety_filters ==
  [ malware_keywords |->
      { phrase(<< "download", "crack" >>), phrase(<< "free", "hack" >>), << "keygen" >>,
        phrase(<< "serial", "number" >>), phrase(<< "torrent", "download" >>),
        phrase(<< "pirated", "software" >>), << "warez" >> },
    adult_keywords |->
      { << "explicit" >>, << "nsfw" >>, phrase(<< "adult", "content" >>),
        << "pornography" >> },
    illegal_keywords |->
      { phrase(<< "how", "to", "make", "bomb" >>), phrase(<< "illegal", "drugs" >>),
        phrase(<< "hire", "hitman" >>), phrase(<< "fake", "documents" >>),
        phrase(<< "credit", "card", "fraud" >>) },
    hate_keywords |->
      { phrase(<< "hate", "speech" >>), << "nazi" >>, << "terrorist" >>,
        phrase(<< "extremist", "content" >>) } ]

\* re.search(r'\b(first)\s+(second)', text); any word serves as second when
\* any_second is set (the pattern ends with \w+)
WordPairMatch(text, firsts, seconds, any_second) ==
  \E i \in 1..Len(text) : \E j \in (i + 2)..Len(text) :
    /\ text[i] \in firsts
    /\ \A k \in (i + 1)..(j - 1) : IsSpace(text[k])
    /\ ~IsSpace(text[j])
    /\ any_second \/ text[j] \in seconds

\* the four suspicious_patterns of is_safe_query
suspicious(query_lower) ==
  \/ WordPairMatch(query_lower, { "hack", "exploit", "vulnerability" }, { }, TRUE)
  \/ \E i \in 1..Len(query_lower) :
       query_lower[i] \in { "download", "crack", "keygen", "serial" }
  \/ WordPairMatch(query_lower, { "illegal", "unlawful", "criminal" }, { }, TRUE)
  \/ WordPairMatch(query_lower, { "bomb", "weapon", "drug" },
                   { "recipe", "tutorial", "guide" }, FALSE)

\* is_safe_query: (is_safe, reason)
is_safe_query(query) ==
  IF query = << >> \/ Len(strip(query)) = 0
    THEN [ safe |-> FALSE, reason |-> "Empty query" ]
  ELSE LET query_lower == lower(query)
       IN  IF \E category \in DOMAIN safety_filters :
                \E keyword \in safety_filters[category] : Contains(keyword, query_lower)
             THEN [ safe |-> FALSE, reason |-> "Query blocked: contains unsafe content" ]
           ELSE IF suspicious(query_lower)
             THEN [ safe |-> FALSE, reason |-> "Query blocked: matches suspicious pattern" ]
           ELSE [ safe |-> TRUE, reason |-> "Query is safe" ]

\* ------------------------------------------------------- rate limiting
\* self.rate_limits, self.cache_ttl; windows and TTL in units of ten minutes
global_requests == 50
global_window == 6
per_domain_requests == 10
per_domain_window == 1
cache_ttl == 3

\* the key 'global' of request_history
GlobalKey == << "global" >>

\* self.request_history.get(key, [])
history_get(history, key) ==
  IF key \in DOMAIN history THEN history[key] ELSE << >>

\* the timestamps of a list that are younger than window at time t
recent(stamps, t, window) == SelectSeq(stamps, LAMBDA req_time : t - req_time < window)

\* the global test of is_rate_limited off by one
global_limit_reached_late(history, t) ==
  Len(recent(history_get(history, GlobalKey), t, global_window)) > global_requests

\* len(global_requests) >= self.rate_limits['global']['requests']
global_limit_reached(history, t) ==
  Len(recent(history_get(history, GlobalKey), t, global_window)) >= global_requests

\* len(domain_requests) >= self.rate_limits['per_domain']['requests']
domain_limit_reached(history, domain, t) ==
  Len(recent(history_get(history, domain), t, per_domain_window)) >= per_domain_requests

\* is_rate_limited(domain); domain is << >> for None
is_rate_limited(history, domain, t) ==
  \/ global_limit_reached(history, t)
  \/ domain # << >> /\ domain_limit_reached(history, domain, t)

\* history[key].append(t), creating the list when the key is new
history_append(history, key, t) ==
  [ k \in DOMAIN history \cup { key } |->
      IF k = key THEN Append(history_get(history, key), t) ELSE history[k] ]

\* cleanup_request_history: every list keeps what is younger than the larger
\* of the two windows
cleanup_request_history(history, t) ==
  [ k \in DOMAIN history |->
      recent(history[k], t, Max(global_window, per_domain_window)) ]

\* record_request(domain)
record_request(history, domain, t) ==
  LET g == history_append(history, GlobalKey, t)
      d == IF domain # << >> THEN history_append(g, domain, t) ELSE g
  IN  cleanup_request_history(d, t)

\* ---------------------------------------------------------------- fetch
\* what the HTTP exchange of one fetch comes to: "ok", or the failure
FetchOutcomes == { "ok", "timeout", "filtered" }

\* fetch_safe_content as a function of the state: the dict it returns, the
\* history it leaves, whether it went out to the network
fetch_safe_content(history, url, outcome, t) ==
  LET failure(error, out) ==
        [ success |-> FALSE, error |-> error, request_history |-> history,
          outbound |-> out ]
  IN  IF urlparse_raises(url) THEN failure("Unexpected error", 0)
      ELSE IF url.scheme = "" \/ url.netloc = << >> THEN failure("Invalid URL", 0)
      ELSE IF is_rate_limited(history, domain_of(url), t)
        THEN failure("Domain rate limit exceeded", 0)
      ELSE IF outcome # "ok" THEN failure(outcome, 1)
      ELSE [ success |-> TRUE, error |-> "",
             request_history |-> record_request(history, domain_of(url), t),
             outbound |-> 1 ]

FetchSafeContent(url, outcome) ==
  \E r \in { fetch_safe_content(request_history, url, outcome, time) } :
      /\ request_history' = r.request_history
      /\ last' = [ op |-> "fetch_safe_content", url |-> url,
                   ret |-> [ success |-> r.success, error |-> r.error ],
                   outbound |-> r.outbound ]
      /\ web_log' = NoWebRows
      /\ UNCHANGED << time, trusted_domains, cache >>
      /\ UNCHANGED engine
      /\ UNCHANGED threads

\* --------------------------------------------------------------- search
\* search_trusted_sources: the first max_results static examples that
\* is_trusted_domain reports trusted
search_trusted_sources(table, max_results) ==
  LET trusted_examples == << UrlGithubSearch, UrlStackSearch >>
  IN  SelectSeq(SubSeq(trusted_examples, 1, Min(Max(max_results, 0), 2)),
                LAMBDA url : is_trusted_domain(table, url).trusted)

\* simple_search_fallback: wiki is what search_wikipedia returned
simple_search_fallback(table, max_results, wiki) ==
  LET wiki_results == IF DomainIndex(table, << "wikipedia.org" >>) # 0
                        THEN wiki ELSE << >>
      results == IF Len(wiki_results) < max_results
                   THEN wiki_results \o
                        search_trusted_sources(table, max_results - Len(wiki_results))
                   ELSE wiki_results
  IN  SubSeq(results, 1, Min(max_results, Len(results)))

\* the trust score a raw result needs to exceed, with >= in place of >
passes_trust_filter_inclusive(verdict) == verdict.trusted /\ verdict.trust >= 50

\* is_trusted and trust_score > 0.5
passes_trust_filter(verdict) == verdict.trusted /\ verdict.trust > 50

\* log_web_request: the row handed to INSERT; nothing when urlparse raises
log_web_request(rows, query, url, success, trust_score, filtered_reason, db_ok) ==
  IF urlparse_raises(url) THEN rows
  ELSE Append(rows, [ query |-> query, url |-> url, success |-> success,
                      trust_score |-> trust_score,
                      filtered_reason |-> filtered_reason, stored |-> db_ok ])

\* a failed fetch that discards the results processed before it
after_fetch_dropping(acc, url, verdict, content_data, query, db_ok) ==
  IF content_data.success
    THEN [ request_history |-> content_data.request_history,
           processed |-> Append(acc.processed,
                                [ url |-> url, trust_score |-> verdict.trust ]),
           rows |-> log_web_request(acc.rows, query, url, TRUE, verdict.trust,
                                    << >>, db_ok),
           outbound |-> acc.outbound + content_data.outbound,
           attempted |-> Append(acc.attempted, url) ]
    ELSE [ acc EXCEPT !.outbound = @ + content_data.outbound,
                      !.attempted = Append(@, url),
                      !.processed = << >> ]

\* one raw result whose fetch returned content_data: a success joins the
\* processed results and is logged, a failure leaves no trace
after_fetch(acc, url, verdict, content_data, query, db_ok) ==
  IF content_data.success
    THEN [ request_history |-> content_data.request_history,
           processed |-> Append(acc.processed,
                                [ url |-> url, trust_score |-> verdict.trust ]),
           rows |-> log_web_request(acc.rows, query, url, TRUE, verdict.trust,
                                    << >>, db_ok),
           outbound |-> acc.outbound + content_data.outbound,
           attempted |-> Append(acc.attempted, url) ]
    ELSE [ acc EXCEPT !.outbound = @ + content_data.outbound,
                      !.attempted = Append(@, url) ]

\* the body of the loop of search_web_safely for one raw result; verdict is
\* what is_trusted_domain said of its URL
process_result(acc, url, verdict, outcome, query, db_ok, t) ==
  IF passes_trust_filter(verdict)
    THEN after_fetch(acc, url, verdict,
                     fetch_safe_content(acc.request_history, url, outcome, t),
                     query, db_ok)
    ELSE [ acc EXCEPT !.rows =
             log_web_request(@, query, url, FALSE, verdict.trust,
                             << "Domain not trusted", verdict.reason >>, db_ok) ]

\* the loop of search_web_safely over the raw results, from result i on;
\* acc holds the history, the processed results, the audit rows, the number
\* of outbound requests and the URLs handed to fetch_safe_content so far
RECURSIVE ProcessResults(_, _, _, _, _, _, _, _)
ProcessResults(results, i, acc, table, outcomes, query, db_ok, t) ==
  IF i > Len(results) THEN acc
  ELSE ProcessResults(results, i + 1,
         process_result(acc, results[i], is_trusted_domain(table, results[i]),
                        outcomes[i], query, db_ok, t),
         table, outcomes, query, db_ok, t)

\* a fresh entry for cache_key: present and younger than the TTL
cache_fresh_inclusive(entries, cache_key, t) ==
  cache_key \in DOMAIN entries /\ t - entries[cache_key].timestamp <= cache_ttl

\* cache_key in self.cache and time.time() - cached['timestamp'] < cache_ttl
cache_fresh(entries, cache_key, t) ==
  cache_key \in DOMAIN entries /\ t - entries[cache_key].timestamp < cache_ttl

\* generate_cache_key: the md5 digest of the query as given; the digest is
\* written as the text it is taken from
generate_cache_key(query) == query

\* the result_data of a search whose loop ended in done
result_data(query, done, t) ==
  [ success |-> TRUE, query |-> query, results |-> done.processed,
    total_found |-> Len(done.processed), timestamp |-> t ]

\* the end of search_web_safely after the loop: one global timestamp, the
\* cache entry, the return value
finish_search(entries, query, done, t) ==
  [ ret |-> result_data(query, done, t), path |-> "searched",
    request_history |-> record_request(done.request_history, << >>, t),
    cache |-> [ k \in DOMAIN entries \cup { generate_cache_key(query) } |->
                  IF k = generate_cache_key(query)
                    THEN [ data |-> result_data(query, done, t), timestamp |-> t ]
                    ELSE entries[k] ],
    rows |-> [ NoWebRows EXCEPT !.web_requests = done.rows ],
    outbound |-> done.outbound, attempted |-> done.attempted,
    fetched |-> Len(done.processed) ]

\* a return of search_web_safely that leaves history and cache as they were
leave_search(history, entries, ret, path, rows, outbound) ==
  [ ret |-> ret, path |-> path, request_history |-> history, cache |-> entries,
    rows |-> rows, outbound |-> outbound, attempted |-> << >>, fetched |-> 0 ]

\* search_web_safely from the search on; searched is the number of requests
\* search_wikipedia made
run_search(history, entries, table, query, search_results, searched, outcomes, db_ok, t) ==
  IF search_results = << >>
    THEN leave_search(history, entries,
                      [ success |-> FALSE, error |-> "No search results found" ],
                      "no_results", NoWebRows, searched)
    ELSE finish_search(entries, query,
           ProcessResults(search_results, 1,
                          [ request_history |-> history, processed |-> << >>,
                            rows |-> << >>, outbound |-> searched,
                            attempted |-> << >> ],
                          table, outcomes, query, db_ok, t),
           t)

\* the safety rejection without its log_blocked_attempt call
reject_query_unlogged(history, entries, query, verdict, db_ok) ==
  [ ret |-> [ success |-> FALSE, error |-> "Query blocked by safety filter",
              reason |-> verdict.reason ],
    path |-> "blocked", request_history |-> history, cache |-> entries,
    rows |-> NoWebRows, outbound |-> 0, attempted |-> << >>, fetched |-> 0 ]

\* the safety rejection of search_web_safely; verdict is what is_safe_query said
reject_query(history, entries, query, verdict, db_ok) ==
  leave_search(history, entries,
               [ success |-> FALSE, error |-> "Query blocked by safety filter",
                 reason |-> verdict.reason ],
               "blocked",
               [ NoWebRows EXCEPT !.blocked_attempts =
                   << [ query |-> query, block_reason |-> verdict.reason,
                        severity |-> "HIGH", stored |-> db_ok ] >> ],
               0)

\* search_web_safely as a function of the state: the dict it returns, the
\* history, cache and audit rows it leaves, the outbound requests it made,
\* and the return statement it left through
search_web_safely(history, entries, table, query, max_results, wiki, outcomes, db_ok, t) ==
  IF ~is_safe_query(query).safe
    THEN reject_query(history, entries, query, is_safe_query(query), db_ok)
  ELSE IF is_rate_limited(history, << >>, t)
    THEN leave_search(history, entries,
                      [ success |-> FALSE, error |-> "Rate limit exceeded" ],
                      "rate_limited", NoWebRows, 0)
  ELSE IF cache_fresh(entries, generate_cache_key(query), t)
    THEN leave_search(history, entries, entries[generate_cache_key(query)].data,
                      "cached", NoWebRows, 0)
  ELSE run_search(history, entries, table, query,
                  simple_search_fallback(table, max_results, wiki),
                  IF DomainIndex(table, << "wikipedia.org" >>) # 0 THEN 1 ELSE 0,
                  outcomes, db_ok, t)

SearchWebSafely(query, max_results, wiki, outcomes, db_ok) ==
  \E r \in { search_web_safely(request_history, cache, trusted_domains, query,
                                max_results, wiki, outcomes, db_ok, time) } :
      /\ request_history' = r.request_history
      /\ cache' = r.cache
      /\ web_log' = r.rows
      /\ last' = [ op |-> "search_web_safely", query |-> query, ret |-> r.ret,
                   path |-> r.path, raw |-> simple_search_fallback(trusted_domains, max_results, wiki),
                   outcomes |-> IF r.path = "searched" THEN outcomes ELSE << >>,
                   outbound |-> r.outbound, attempted |-> r.attempted,
                   fetched |-> r.fetched ]
      /\ UNCHANGED << time, trusted_domains >>
      /\ UNCHANGED engine
      /\ UNCHANGED threads

\* time passes between calls
Advance ==
  /\ time < MaxClock
  /\ time' = time + 1
  /\ web_log' = NoWebRows
  /\ last' = NoCall
  /\ UNCHANGED << trusted_domains, request_history, cache >>
  /\ UNCHANGED engine
  /\ UNCHANGED threads

\* ------------------------------------------------------------- SpecWeb
\* the queries the callers submit
QueryEmpty == << >>
QueryCats == << "cats" >>
QueryCatsUpper == << "Cats" >>
QueryBomb == << "How", Blank, "to", Blank, "make", Blank, "bomb" >>
QueryHack == << "Hack", Blank, "wifi" >>

Queries == { QueryEmpty, QueryCats, QueryCatsUpper, QueryBomb, QueryHack }

\* what search_wikipedia returns: nothing, the page URL of the summary, or the
\* empty URL of a summary without content_urls
WikiResponses == { << >>, << UrlWikiCat >>, << UrlNone >> }

MaxResultsInputs == { 1, 5 }

\* per raw result, what its fetch comes to
ResultOutcomes == [ 1..3 -> { "ok", "timeout" } ]

\* n requests recorded at time 0
Stamps(n) == [ i \in 1..n |-> 0 ]

\* the gateway after a run of earlier calls within the first ten minutes:
\* searches that fetched nothing, and fetches of github.com pages
InitialHistories ==
  { [ k \in { GlobalKey, << "github.com" >> } |->
        IF k = GlobalKey THEN Stamps(global_requests - 2)
                         ELSE Stamps(per_domain_requests - 1) ] }

InitWeb ==
  /\ now = 0
  /\ current_level = ENUM_SAFE
  /\ session_tokens = << >>
  /\ issued = << >>
  /\ temporary_overrides = << >>
  /\ policies = InitialPolicies
  /\ appended = NoRows
  /\ exported = NoConfig
  /\ at_export = NoExport
  /\ last = NoCall
  /\ NoThreads
  /\ time = 0
  /\ trusted_domains = InitialTrustedDomains
  /\ request_history \in InitialHistories
  /\ cache = << >>
  /\ web_log = NoWebRows

\* the outcome tables that differ only where this search fetches: on the raw
\* results that pass the trust filter
RelevantOutcomes(raw) ==
  { o \in ResultOutcomes :
      \A i \in DOMAIN o :
        ( i > Len(raw)
          \/ ~passes_trust_filter(is_trusted_domain(trusted_domains, raw[i])) )
        => o[i] = "ok" }

NextWeb ==
  \/ Advance
  \/ \E q \in { q \in Queries : ~is_safe_query(q).safe } :
       SearchWebSafely(q, 5, << >>, [ i \in 1..3 |-> "ok" ], TRUE)
  \/ \E q \in { q \in Queries : is_safe_query(q).safe }, m \in MaxResultsInputs,
        w \in WikiResponses :
       \E o \in RelevantOutcomes(simple_search_fallback(trusted_domains, m, w)) :
         SearchWebSafely(q, m, w, o, TRUE)
  \/ \E u \in { UrlGithubSearch, UrlNone }, o \in FetchOutcomes :
       FetchSafeContent(u, o)
  \/ AddTrustedDomain(<< "github.com" >>, "code_repository", 50)

SpecWeb == InitWeb /\ [][NextWeb]_vars

\* ------------------------------------------------------ content filters
\* len(token): the number of characters of the tokens page bodies are made of
CharLen(tok) ==
  CASE tok = Blank -> 1
    [] tok = "nsfw" -> 4
    [] tok = "spam" -> 4
    [] tok = "explicit" -> 8
    [] tok = "pornography" -> 11
    [] tok = "internationalization" -> 20

\* len(content), in characters
RECURSIVE char_len(_)
char_len(content) ==
  IF Len(content) = 0 THEN 0
  ELSE IF Len(content) = 1 THEN CharLen(content[1])
  ELSE char_len(SubSeq(content, 1, Len(content) \div 2))
       + char_len(SubSeq(content, Len(content) \div 2 + 1, Len(content)))

\* content.split(): the maximal runs of tokens without a blank, in order
split(content) ==
  LET starts == { i \in 1..Len(content) :
                    ~IsSpace(content[i]) /\ ( i = 1 \/ IsSpace(content[i - 1]) ) }
      start(k) == CHOOSE i \in starts : Cardinality({ j \in starts : j < i }) = k - 1
      end(i) == CHOOSE j \in i..Len(content) :
                  /\ \A k \in i..j : ~IsSpace(content[k])
                  /\ ( j = Len(content) \/ IsSpace(content[j + 1]) )
  IN  [ k \in 1..Cardinality(starts) |-> SubSeq(content, start(k), end(start(k))) ]

\* the literals of apply_content_filters
density_limit == 2
min_content_length == 50
spam_min_words == 30

\* some category of safety_filters has more than two of its keywords in the body
density_blocked(content_lower) ==
  \E category \in DOMAIN safety_filters :
    Cardinality({ keyword \in safety_filters[category] :
                    Contains(keyword, content_lower) }) > density_limit

\* the first category, in the order of the dict, whose density blocks the body
dense_category(content_lower) ==
  LET order == << "malware_keywords", "adult_keywords", "illegal_keywords",
                  "hate_keywords" >>
      dense(category) ==
        Cardinality({ keyword \in safety_filters[category] :
                        Contains(keyword, content_lower) }) > density_limit
  IN  order[CHOOSE i \in 1..4 : dense(order[i]) /\ \A j \in 1..(i - 1) : ~dense(order[j])]

\* len(unique_words) / len(words) < 0.3 for a body of more than 30 words
repetitive(content_lower) ==
  LET words == split(content_lower)
  IN  /\ Len(words) > spam_min_words
      /\ Cardinality({ words[i] : i \in 1..Len(words) }) * 10 < 3 * Len(words)

\* apply_content_filters: (is_safe, reason)
apply_content_filters(content) ==
  IF content = << >> \/ Len(strip(content)) = 0
    THEN [ safe |-> FALSE, reason |-> << "Empty content" >> ]
  ELSE IF density_blocked(lower(content))
    THEN [ safe |-> FALSE,
           reason |-> << "Content blocked: high content density",
                         dense_category(lower(content)) >> ]
  ELSE IF char_len(content) < min_content_length
    THEN [ safe |-> FALSE, reason |-> << "Content too short" >> ]
  ELSE IF repetitive(lower(content))
    THEN [ safe |-> FALSE, reason |-> << "Content appears to be spam or repetitive" >> ]
  ELSE [ safe |-> TRUE, reason |-> << "Content is safe" >> ]

ApplyContentFilters(content) ==
  /\ last' = [ op |-> "apply_content_filters", content |-> content,
               ret |-> apply_content_filters(content) ]
  /\ UNCHANGED << time, trusted_domains, request_history, cache, web_log >>
  /\ UNCHANGED engine
  /\ UNCHANGED threads

\* the page bodies: every text of up to MaxBody tokens, and two long ones of
\* 31 words, one word repeated and ten words in turn
MaxBody == 3
BodyTokens == { Blank, "explicit", "nsfw", "pornography", "internationalization" }
RepeatedBody == [ i \in 1..61 |-> IF i % 2 = 1 THEN "spam" ELSE Blank ]
RECURSIVE Join(_)
Join(words) ==
  IF Len(words) = 0 THEN << >>
  ELSE IF Len(words) = 1 THEN words[1]
  ELSE Join(SubSeq(words, 1, Len(words) \div 2)) \o << Blank >>
       \o Join(SubSeq(words, Len(words) \div 2 + 1, Len(words)))
VariedWords ==
  << << "spam" >>, << "nsfw" >>, << "explicit" >>, << "internationalization" >>,
     << "spam", "spam" >>, << "nsfw", "nsfw" >>, << "explicit", "explicit" >>,
     << "spam", "nsfw" >>, << "nsfw", "spam" >>, << "spam", "explicit" >> >>
VariedBody == Join([ i \in 1..31 |-> VariedWords[(i % 10) + 1] ])
Bodies ==
  UNION { [ 1..n -> BodyTokens ] : n \in 0..MaxBody } \cup { RepeatedBody, VariedBody }

NextFilter == \E content \in Bodies : ApplyContentFilters(content)

SpecFilter == Init /\ [][NextFilter]_vars

\* ============================================== calls that interleave
\* The engine entered by several threads.  A call is followed statement by
\* statement where another thread can come between: inflight[t] holds the
\* position of thread t in its call and the locals it has read so far.  The
\* audit store takes every row it can bind.
MaxCalls == 3

\* the calls the threads have begun, all told
RECURSIVE CallsBegunUpTo(_)
CallsBegunUpTo(t) == IF t = 0 THEN 0 ELSE inflight[t].calls + CallsBegunUpTo(t - 1)
CallsBegun == CallsBegunUpTo(MaxThreads)

\* set_policy_level up to the authorization: old_level is read without the
\* lock, then an unknown level or a refused token returns False
SetPolicyLevelBegin(t, level, auth_token) ==
  LET old_level == current_level
      v == IF requires_authorization(level)
             THEN verify_authorization(session_tokens, auth_token, level, now)
             ELSE [ ret |-> TRUE, session_tokens |-> session_tokens ]
      ok == level \in DOMAIN policies /\ v.ret
  IN  /\ inflight[t].pc = "idle"
      /\ CallsBegun < MaxCalls
      /\ session_tokens' =
           IF level \in DOMAIN policies THEN v.session_tokens ELSE session_tokens
      /\ inflight' =
           [ inflight EXCEPT ![t] =
               IF ok THEN [ pc |-> "assign", calls |-> @.calls + 1,
                            old_level |-> old_level, level |-> level,
                            token |-> auth_token ]
                     ELSE Idle(@.calls + 1) ]
      /\ last' = IF ok THEN last
                       ELSE [ op |-> "set_policy_level", token |-> auth_token,
                              level |-> level, ret |-> FALSE ]
      /\ appended' = IF ok THEN appended ELSE NoRows
      /\ UNCHANGED << now, current_level, issued, temporary_overrides, policies,
                      policy_changes >>
      /\ UNCHANGED snapshot
      /\ UNCHANGED gateway

\* with self.lock: self.current_level = level
SetPolicyLevelAssign(t) ==
  /\ inflight[t].pc = "assign"
  /\ current_level' = inflight[t].level
  /\ inflight' = [ inflight EXCEPT ![t].pc = "log" ]
  /\ UNCHANGED << now, session_tokens, issued, temporary_overrides, policies,
                  appended, last, policy_changes >>
  /\ UNCHANGED snapshot
  /\ UNCHANGED gateway

\* log_policy_change(old_level, level, ...) and return True
SetPolicyLevelLog(t) ==
  LET call == inflight[t]
      rows == IF sqlite_binds(call.old_level) /\ sqlite_binds(call.level)
                THEN << [ old_level |-> call.old_level, new_level |-> call.level ] >>
                ELSE << >>
  IN  /\ call.pc = "log"
      /\ policy_changes' = policy_changes \o rows
      /\ appended' = [ NoRows EXCEPT !.policy_changes = rows ]
      /\ inflight' = [ inflight EXCEPT ![t] = Idle(call.calls) ]
      /\ last' = [ op |-> "set_policy_level", token |-> call.token,
                   level |-> call.level, ret |-> TRUE ]
      /\ UNCHANGED << now, current_level, session_tokens, issued,
                      temporary_overrides, policies >>
      /\ UNCHANGED snapshot
      /\ UNCHANGED gateway

\* SpecThreads: set_policy_level called from MaxThreads threads, MaxCalls times
\* all told
NextThreads ==
  \/ \E u \in Users, d \in Durations :
       GenerateAuthToken(u, "unrestricted", d)
  \/ \E t \in Threads, l \in Levels, k \in TokenInputs : SetPolicyLevelBegin(t, l, k)
  \/ \E t \in Threads : SetPolicyLevelAssign(t)
  \/ \E t \in Threads : SetPolicyLevelLog(t)

SpecThreads == Init /\ [][NextThreads]_vars

\* ------------------------------------- fetch_safe_content from several threads
\* fetch_safe_content up to the HTTP exchange: the URL is parsed and
\* is_rate_limited(domain) answers under the lock, which is released before
\* the request goes out
FetchSafeContentBegin(t, url) ==
  LET error == IF urlparse_raises(url) THEN "Unexpected error"
               ELSE IF url.scheme = "" \/ url.netloc = << >> THEN "Invalid URL"
               ELSE IF is_rate_limited(request_history, domain_of(url), time)
                 THEN "Domain rate limit exceeded"
               ELSE ""
  IN  /\ inflight[t].pc = "idle"
      /\ CallsBegun < MaxCalls
      /\ inflight' =
           [ inflight EXCEPT ![t] =
               IF error = "" THEN [ pc |-> "fetching", calls |-> @.calls + 1,
                                    url |-> url ]
                             ELSE Idle(@.calls + 1) ]
      /\ last' = IF error = "" THEN last
                 ELSE [ op |-> "fetch_safe_content", url |-> url,
                        ret |-> [ success |-> FALSE, error |-> error ],
                        outbound |-> 0 ]
      /\ web_log' = NoWebRows
      /\ UNCHANGED << time, trusted_domains, request_history, cache, policy_changes >>
      /\ UNCHANGED engine

\* the rest of fetch_safe_content: the exchange comes to outcome, and a body
\* that passed the filters is recorded with record_request(domain) under the
\* lock, at the time it is then
FetchSafeContentEnd(t, outcome) ==
  LET call == inflight[t]
  IN  /\ call.pc = "fetching"
      /\ request_history' =
           IF outcome = "ok"
             THEN record_request(request_history, domain_of(call.url), time)
             ELSE request_history
      /\ inflight' = [ inflight EXCEPT ![t] = Idle(call.calls) ]
      /\ last' = [ op |-> "fetch_safe_content", url |-> call.url,
                   ret |-> [ success |-> outcome = "ok",
                             error |-> IF outcome = "ok" THEN "" ELSE outcome ],
                   outbound |-> 1 ]
      /\ web_log' = NoWebRows
      /\ UNCHANGED << time, trusted_domains, cache, policy_changes >>
      /\ UNCHANGED engine

\* SpecFetch: fetch_safe_content called from MaxThreads threads, MaxCalls
\* times all told, on a gateway one request short of the per-domain limit
NextFetch ==
  \/ Advance
  \/ \E t \in Threads, u \in { UrlGithubSearch, UrlStackSearch, UrlNone } :
       FetchSafeContentBegin(t, u)
  \/ \E t \in Threads, o \in FetchOutcomes : FetchSafeContentEnd(t, o)

SpecFetch == InitWeb /\ [][NextFetch]_vars

\* ------------------------------------------ evaluate_content between threads
\* evaluate_content up to the lookup of the thresholds: empty content and
\* content that cannot be encoded return at once; otherwise current_policy is
\* read from self.current_level, without the lock
EvaluateContentBegin(t, content) ==
  LET early == is_empty_content(content) \/ ~utf8_encodable(content)
      e == evaluate_content(content, { }, current_level, policies,
                            temporary_overrides, now)
  IN  /\ inflight[t].pc = "idle"
      /\ CallsBegun < MaxCalls
      /\ inflight' =
           [ inflight EXCEPT ![t] =
               IF early THEN Idle(@.calls + 1)
               ELSE [ pc |-> "decide", calls |-> @.calls + 1,
                      content |-> content, threshold_level |-> current_level ] ]
      /\ last' = IF early
                   THEN [ op |-> "evaluate_content", content |-> content,
                          raising |-> { }, ret |-> e.result,
                          threshold_level |-> current_level ]
                   ELSE last
      /\ appended' = IF early THEN NoRows ELSE appended
      /\ UNCHANGED << now, current_level, session_tokens, issued,
                      temporary_overrides, policies, policy_changes >>
      /\ UNCHANGED snapshot
      /\ UNCHANGED gateway

\* the rest of evaluate_content: the overrides, the decision against the
\* thresholds read before, then the result, which reads self.current_level
\* again, and its audit row
EvaluateContentEnd(t) ==
  LET call == inflight[t]
  IN  /\ call.pc = "decide"
      /\ \E e \in { evaluate_content(call.content, { }, call.threshold_level,
                                     policies, temporary_overrides, now) } :
           \E result \in { [ e.result EXCEPT !.policy_level = current_level ] } :
             /\ temporary_overrides' = e.temporary_overrides
             /\ appended' =
                  [ NoRows EXCEPT !.content_evaluations =
                      log_content_evaluation(<< >>, result, TRUE) ]
             /\ last' = [ op |-> "evaluate_content", content |-> call.content,
                          raising |-> { }, ret |-> result,
                          threshold_level |-> call.threshold_level ]
      /\ inflight' = [ inflight EXCEPT ![t] = Idle(call.calls) ]
      /\ UNCHANGED << now, current_level, session_tokens, issued, policies,
                      policy_changes >>
      /\ UNCHANGED snapshot
      /\ UNCHANGED gateway

\* SpecEvalThreads: evaluate_content called from MaxThreads threads, MaxCalls
\* times all told, while the level is set to one that needs no token
NextEvalThreads ==
  \/ \E l \in { "safe", "educational" } : SetPolicyLevel(l, NoToken, TRUE)
  \/ \E t \in Threads, c \in Texts : EvaluateContentBegin(t, c)
  \/ \E t \in Threads : EvaluateContentEnd(t)

SpecEvalThreads == Init /\ [][NextEvalThreads]_vars

\* ------------------------------------------- searches and a shrinking table
\* the global timestamps a run records before it stops searching
MaxStamps == 3

\* SpecRevoke: searches on a new gateway while entries are removed from the
\* trusted table
NextRevoke ==
  \/ Advance
  \/ \E q \in { QueryCats }, w \in WikiResponses :
       \E o \in RelevantOutcomes(simple_search_fallback(trusted_domains, 5, w)) :
         /\ Len(history_get(request_history, GlobalKey)) < MaxStamps
         /\ SearchWebSafely(q, 5, w, o, TRUE)
  \/ \E d \in { << "github.com" >>, << "example.com" >> } : RemoveTrustedDomain(d)

SpecRevoke == Init /\ [][NextRevoke]_vars

\* ================================================================== claims
\* the privilege order Safe < Educational < Research < Unrestricted
Rank == [ safe |-> 0, educational |-> 1, research |-> 2, unrestricted |-> 3 ]

\* token is in the session table and its expiry has not passed
Live(token) ==
  /\ token \in DOMAIN session_tokens
  /\ now <= session_tokens[token].expiry

\* some entry of the overrides dict is unexpired, compiles and matches content
MatchingOverride(overrides, content, t) ==
  \E i \in 1..Len(overrides) :
    /\ t <= overrides[i].expiry
    /\ re_compiles(overrides[i].pattern)
    /\ re_search(overrides[i].pattern, content, TRUE)

\* C1: evaluate_content on empty or whitespace-only text returns allowed=false
\* with the empty-content reason, at every level and with any overrides live.
C1_EmptyContentRejected ==
  \A content \in { TextEmpty, TextBlank } :
    LET r == evaluate_content(content, { }, current_level, policies,
                              temporary_overrides, now).result
    IN  /\ r.allowed = FALSE
        /\ r.violations = << << "Empty content" >> >>
        /\ r.block_reason = "Empty or invalid content"
        /\ (last.op = "evaluate_content" /\ last.content = content) => last.ret = r

C1_Witness ==
  /\ last.op = "evaluate_content"
  /\ last.content = TextBlank
  /\ last.ret.allowed = FALSE
  /\ current_level = "unrestricted"
  /\ MatchingOverride(temporary_overrides, TextBomb, now)

\* C2: verify_authorization(token, required) is true exactly when the token is
\* in the session table, its expiry has not passed, and the rank of its level
\* is at least the rank of the required level.
C2_VerifyIffLiveAndRanked ==
  /\ \A token \in TokenInputs, required \in Levels :
       verify_authorization(session_tokens, token, required, now).ret
         <=> /\ Live(token)
             /\ Rank[session_tokens[token].level] >= Rank[required]
  /\ last.op = "verify_authorization" =>
       ( last.ret <=> /\ Live(last.token)
                      /\ Rank[session_tokens[last.token].level] >= Rank[last.level] )

C2_Witness ==
  /\ last.op = "verify_authorization"
  /\ last.token \in DOMAIN session_tokens
  /\ session_tokens[last.token].level = "research"
  /\ last.level = "educational"
  /\ last.ret = TRUE
  /\ ~verify_authorization(session_tokens, last.token, "unrestricted", now).ret

\* C3: set_policy_level moves the level to research or unrestricted only when
\* verify_authorization(token, target) holds at the call; an unauthorized or
\* invalid-level call returns false, keeps the level and writes no
\* policy_changes row; a call for safe or educational succeeds with any token.
C3_SetPolicyLevelGated ==
  [][ last'.op = "set_policy_level" =>
        LET target == last'.level
            authorized ==
              verify_authorization(session_tokens, last'.token, target, now).ret
        IN  /\ ( target \in { "research", "unrestricted" } /\ current_level' = target
                 /\ current_level # target ) => authorized
            /\ ( \/ target \notin Levels
                 \/ target \in { "research", "unrestricted" } /\ ~authorized )
               => /\ last'.ret = FALSE
                  /\ current_level' = current_level
                  /\ appended'.policy_changes = << >>
            /\ target \in { "safe", "educational" }
               => /\ last'.ret = TRUE
                  /\ current_level' = target ]_vars

C3_Witness ==
  /\ last.op = "set_policy_level"
  /\ last.level = "research"
  /\ last.ret = TRUE
  /\ current_level = "research"

\* C4: once the expiry of a token has passed, verify_authorization returns
\* false for it at every level, the call that finds it in the table removes
\* it, and no later call returns true for it.
C4_ElapsedTokenRejected ==
  \A token \in DOMAIN issued : now > issued[token] =>
    \A required \in Levels :
      LET v == verify_authorization(session_tokens, token, required, now)
      IN  /\ v.ret = FALSE
          /\ token \notin DOMAIN v.session_tokens

C4_EvictedOnVerify ==
  [][ ( /\ last'.op = "verify_authorization"
        /\ last'.token \in DOMAIN issued
        /\ now > issued[last'.token] )
      => /\ last'.ret = FALSE
         /\ last'.token \notin DOMAIN session_tokens' ]_vars

C4_ExpiredTokenEvicted == []C4_ElapsedTokenRejected /\ C4_EvictedOnVerify

C4_Witness ==
  /\ last.op = "verify_authorization"
  /\ last.level = "safe"
  /\ last.ret = FALSE
  /\ last.token \in DOMAIN issued
  /\ now > issued[last.token]
  /\ last.token \notin DOMAIN session_tokens

\* C5: a token authorizes only if it is in the session table and now < expiry;
\* at now = expiry it is already invalid.
C5_ValidOnlyBeforeExpiry ==
  last.op = "verify_authorization" /\ last.ret = TRUE =>
    /\ last.token \in DOMAIN session_tokens
    /\ now < session_tokens[last.token].expiry

\* C6: while an unexpired override matches the text, evaluate_content returns
\* allowed=true with no violations; with no such override a text whose scores
\* exceed the thresholds is blocked.
C6_OverrideSuppressesViolations ==
  ( /\ last.op = "evaluate_content"
    /\ ~is_empty_content(last.content)
    /\ utf8_encodable(last.content) )
  => IF MatchingOverride(temporary_overrides, last.content, now)
       THEN /\ last.ret.allowed = TRUE
            /\ last.ret.violations = << >>
       ELSE LET level == IF current_level \in Levels THEN current_level ELSE "safe"
            IN  ( \E c \in Categories :
                    exceeds(last.ret.category_scores[c], policies[level][c]) )
                => last.ret.allowed = FALSE

\* C7: add_temporary_override changes the overrides dict only when the token
\* is authorized at research level; otherwise it returns false and leaves the
\* dict as it was.
C7_OverrideNeedsResearch ==
  [][ last'.op = "add_temporary_override" =>
        LET authorized ==
              /\ Live(last'.token)
              /\ Rank[session_tokens[last'.token].level] >= Rank["research"]
        IN  /\ temporary_overrides' # temporary_overrides => authorized
            /\ ~authorized => /\ last'.ret = FALSE
                              /\ temporary_overrides' = temporary_overrides ]_vars

C7_Witness ==
  /\ last.op = "add_temporary_override"
  /\ last.ret = TRUE
  /\ \E i \in 1..Len(temporary_overrides) :
       temporary_overrides[i].pattern = last.pattern

\* C8: every call to evaluate_content inserts exactly one content_evaluations
\* row.
C8_OneRecordPerEvaluation ==
  last.op = "evaluate_content" => Len(appended.content_evaluations) = 1

\* token is in the session table of the content_policy_module.py engine, its
\* expiry has not passed and its level is Unrestricted
LiveUnrestricted(token) ==
  /\ Live(token)
  /\ session_tokens[token].level = "ContentLevel.UNRESTRICTED"

\* C9: importing the snapshot export_policy_config returned, with a token
\* authorized at Unrestricted, leaves the threshold table and the active level
\* as they were when the snapshot was taken.
C9_ExportImportRoundTrip ==
  [][ ( /\ last'.op = "import_policy_config"
        /\ at_export.taken
        /\ last'.config = exported
        /\ LiveUnrestricted(last'.token) )
      => /\ last'.ret = TRUE
         /\ policies' = at_export.policies
         /\ current_level' = at_export.current_level ]_vars

C9_Witness ==
  /\ last.op = "import_policy_config"
  /\ at_export.taken
  /\ last.config = exported
  /\ last.ret = TRUE
  /\ last.changed
  /\ policies = at_export.policies
  /\ policies # EnumPolicies
  /\ current_level = at_export.current_level
  /\ current_level = "ContentLevel.RESEARCH"

\* C10: the threshold table changes only in an import_policy_config call whose
\* token is authorized at Unrestricted.
C10_ThresholdsNeedUnrestricted ==
  [][ policies' # policies =>
        /\ last'.op = "import_policy_config"
        /\ LiveUnrestricted(last'.token) ]_vars

C10_Witness ==
  /\ last.op = "import_policy_config"
  /\ last.config = ConfigRelax
  /\ last.ret = TRUE
  /\ last.changed
  /\ policies["ContentLevel.SAFE"]["ContentCategory.VIOLENCE"] = 90


\* C11: after an import of an exported snapshot that returned True, every
\* override of the snapshot that is still unexpired is live in the importing
\* engine.
C11_ImportRestoresOverrides ==
  ( /\ last.op = "import_policy_config"
    /\ last.ret
    /\ last.config = exported )
  => \A i \in 1..Len(exported.active_overrides) :
       now <= exported.active_overrides[i].expiry
       => \E k \in 1..Len(temporary_overrides) :
            /\ temporary_overrides[k].pattern = exported.active_overrides[i].pattern
            /\ now <= temporary_overrides[k].expiry


\* ------------------------------------------------------- gateway claims
\* s.endswith(suffix)
EndsWith(s, suffix) ==
  Len(suffix) <= Len(s) /\ SubSeq(s, Len(s) - Len(suffix) + 1, Len(s)) = suffix

\* the host of url, case-folded, holds a blocked-domain substring
HostBlocked(url) == \E b \in blocked_domains : Contains(b, lower(url.netloc))

\* C12: is_trusted_domain answers trusted=false with score 0.0 for every URL
\* whose host contains a blocked-domain substring, whatever the trusted table
\* holds after add_trusted_domain and remove_trusted_domain calls.
C12_BlockedAlwaysWins ==
  ( last.op = "is_trusted_domain" /\ HostBlocked(last.url) )
  => ( ~last.ret.trusted /\ last.ret.trust = 0 )

\* a blocked host that ends with a trusted entry was looked up after the
\* blocked domain itself had been added to the trusted table
C12_Witness ==
  /\ last.op = "is_trusted_domain"
  /\ last.url = UrlBlockedTrusted
  /\ ~last.ret.trusted
  /\ DomainIndex(trusted_domains, << "4chan.org" >>) # 0
  /\ DomainIndex(trusted_domains, << "github.com" >>) # 0

\* C13: is_trusted_domain answers trusted=true only for a host that, without
\* its leading "www.", ends with a trusted entry; a host that holds an entry
\* elsewhere gets trusted=false and score 0.2.
C13_TrustedOnlyBySuffix ==
  ( last.op = "is_trusted_domain" /\ ~urlparse_raises(last.url) )
  => LET domain == domain_of(last.url)
         suffix == \E i \in 1..Len(trusted_domains) :
                     EndsWith(domain, trusted_domains[i].domain)
     IN  /\ last.ret.trusted => suffix
         /\ ( ~suffix /\ ~HostBlocked(last.url) )
              => ( ~last.ret.trusted /\ last.ret.trust = 20 )

\* C14: for a host that equals an entry of the trusted table and is not
\* blocked, is_trusted_domain answers trusted=true with the score configured
\* for that entry at the time of the call.
C14_ExactHostGetsItsScore ==
  ( last.op = "is_trusted_domain" /\ ~urlparse_raises(last.url)
    /\ ~HostBlocked(last.url) )
  => \A i \in 1..Len(trusted_domains) :
       trusted_domains[i].domain = domain_of(last.url)
       => ( last.ret.trusted /\ last.ret.trust = trusted_domains[i].trust )


\* what is_trusted_domain says of url in the current table
Verdict(url) == is_trusted_domain(trusted_domains, url)

\* C15: in a search_web_safely call that executed a search, only raw results
\* that is_trusted_domain reports trusted with a score above 0.5 are handed to
\* fetch_safe_content or returned; every other raw result is logged with
\* success=false and the trust reason and is absent from the results.
C15_OnlyTrustedResultsFetched ==
  ( last.op = "search_web_safely" /\ last.path = "searched" )
  => /\ \A k \in 1..Len(last.attempted) :
          Verdict(last.attempted[k]).trusted /\ Verdict(last.attempted[k]).trust > 50
     /\ \A k \in 1..Len(last.ret.results) :
          /\ Verdict(last.ret.results[k].url).trusted
          /\ Verdict(last.ret.results[k].url).trust > 50
     /\ \A i \in 1..Len(last.raw) :
          ~( Verdict(last.raw[i]).trusted /\ Verdict(last.raw[i]).trust > 50 )
          => /\ \E j \in 1..Len(web_log.web_requests) :
                  /\ web_log.web_requests[j].url = last.raw[i]
                  /\ ~web_log.web_requests[j].success
                  /\ web_log.web_requests[j].filtered_reason
                       = << "Domain not trusted", Verdict(last.raw[i]).reason >>
             /\ \A k \in 1..Len(last.ret.results) :
                  last.ret.results[k].url # last.raw[i]

\* a search whose raw results held an untrusted URL, a trusted one with score
\* exactly 0.5 and one that was fetched and returned
C15_Witness ==
  /\ last.op = "search_web_safely" /\ last.path = "searched"
  /\ \E i \in 1..Len(last.raw) : ~Verdict(last.raw[i]).trusted
  /\ \E i \in 1..Len(last.raw) :
       Verdict(last.raw[i]).trusted /\ Verdict(last.raw[i]).trust = 50
  /\ Len(last.ret.results) = 1
  /\ Len(web_log.web_requests) = 3


\* the number of timestamps recorded under key that lie within window at the
\* current time
InWindow(history, key, window) ==
  IF key \in DOMAIN history
    THEN Cardinality({ i \in 1..Len(history[key]) : time - history[key][i] < window })
    ELSE 0

\* the cache holds an entry for query that is younger than the TTL
FreshEntry(query) ==
  /\ generate_cache_key(query) \in DOMAIN cache
  /\ time - cache[generate_cache_key(query)].timestamp < cache_ttl

\* C16: a search_web_safely call whose query is_safe_query rejects returns
\* failure, logs exactly one blocked attempt with severity HIGH, makes no
\* outbound request and leaves cache and rate-limit history unchanged.
C16_UnsafeQueryBlocked ==
  [][ ( last'.op = "search_web_safely" /\ ~is_safe_query(last'.query).safe )
      => /\ ~last'.ret.success
         /\ Len(web_log'.blocked_attempts) = 1
         /\ web_log'.blocked_attempts[1].severity = "HIGH"
         /\ web_log'.blocked_attempts[1].query = last'.query
         /\ web_log'.web_requests = << >>
         /\ last'.outbound = 0 /\ last'.attempted = << >>
         /\ cache' = cache
         /\ request_history' = request_history ]_vars

\* the bomb-making query was rejected by a gateway that holds cache entries
C16_Witness ==
  /\ last.op = "search_web_safely" /\ last.query = QueryBomb
  /\ ~last.ret.success
  /\ Len(web_log.blocked_attempts) = 1
  /\ cache # << >>

\* C17: with the global window at its limit, a search_web_safely call with a
\* safe query returns the rate-limit failure, also when the cache holds a
\* fresh entry for the query; cache and history stay as they were and no
\* blocked attempt is logged.
C17_RateLimitBeforeCache ==
  [][ ( /\ last'.op = "search_web_safely"
        /\ is_safe_query(last'.query).safe
        /\ InWindow(request_history, GlobalKey, global_window) >= global_requests )
      => /\ last'.path = "rate_limited"
         /\ ~last'.ret.success /\ last'.ret.error = "Rate limit exceeded"
         /\ cache' = cache
         /\ web_log' = NoWebRows
         /\ request_history' = request_history
         /\ last'.outbound = 0 ]_vars

\* a rate-limit failure was returned for a query with a fresh cache entry
C17_Witness ==
  /\ last.op = "search_web_safely" /\ last.path = "rate_limited"
  /\ FreshEntry(last.query)
  /\ InWindow(request_history, GlobalKey, global_window) >= global_requests

\* C18: under every key of the rate-limit history the number of timestamps
\* within the key's window stays at or below the key's limit: 50 within the
\* hour for the global key, 10 within ten minutes for a domain.
C18_WindowsWithinLimits ==
  /\ InWindow(request_history, GlobalKey, global_window) <= global_requests
  /\ \A key \in DOMAIN request_history \ { GlobalKey } :
       InWindow(request_history, key, per_domain_window) <= per_domain_requests

\* C19: a search_web_safely call that executes a search adds exactly one
\* timestamp to the global list, whatever it fetched.
C19_OneGlobalStampPerSearch ==
  [][ ( last'.op = "search_web_safely" /\ last'.path \in { "searched", "no_results" } )
      => Len(history_get(request_history', GlobalKey))
           = Len(history_get(request_history, GlobalKey)) + 1 ]_vars

\* C20 as stated: a search_web_safely call with a safe query returns the
\* cached payload exactly when the cache holds an entry for the query that is
\* younger than the TTL.
C20_CachedExactlyWhenFresh ==
  [][ ( last'.op = "search_web_safely" /\ is_safe_query(last'.query).safe )
      => ( last'.path = "cached" <=> FreshEntry(last'.query) ) ]_vars

\* C20 amended: for a safe query, with the global window below its limit, the
\* call returns the cached payload exactly when the entry is younger than
\* the TTL; a hit makes no outbound request, logs nothing and changes neither
\* history nor cache; a stale entry is not served, and a search that returns
\* success replaces it with the new payload.
C20_CachedWhenFreshAndNotLimited ==
  [][ ( /\ last'.op = "search_web_safely"
        /\ is_safe_query(last'.query).safe
        /\ InWindow(request_history, GlobalKey, global_window) < global_requests )
      => /\ last'.path = "cached" <=> FreshEntry(last'.query)
         /\ FreshEntry(last'.query)
              => /\ last'.ret = cache[generate_cache_key(last'.query)].data
                 /\ last'.outbound = 0 /\ last'.attempted = << >>
                 /\ web_log' = NoWebRows
                 /\ request_history' = request_history
                 /\ cache' = cache
         /\ ~FreshEntry(last'.query)
              => /\ last'.path \in { "searched", "no_results" }
                 /\ last'.ret.success
                      => cache'[generate_cache_key(last'.query)]
                           = [ data |-> last'.ret, timestamp |-> time ] ]_vars

\* a payload cached earlier was served in the last unit of time before its
\* entry turns stale
C20_Witness ==
  /\ last.op = "search_web_safely" /\ last.path = "cached"
  /\ time - last.ret.timestamp = cache_ttl - 1
  /\ last.ret = cache[generate_cache_key(last.query)].data

\* C21: a search_web_safely call that processes raw results leaves exactly
\* one web-request audit row for each of them, in order: for the results it
\* accepted, for those the trust filter dropped, and for those whose fetch
\* failed.
C21_OneRowPerRawResult ==
  ( last.op = "search_web_safely" /\ last.path = "searched" )
    => /\ Len(web_log.web_requests) = Len(last.raw)
       /\ \A i \in 1..Len(last.raw) : web_log.web_requests[i].url = last.raw[i]

\* C22: apply_content_filters rejects every body shorter than the minimum
\* length with the reason "Content too short", whatever keywords it contains.
C22_ShortBodyTooShort ==
  ( last.op = "apply_content_filters"
    /\ char_len(last.content) < min_content_length )
    => last.ret = [ safe |-> FALSE, reason |-> << "Content too short" >> ]

\* C23: through every sequence of add_trusted_domain and
\* remove_trusted_domain calls all trust scores of the table lie in [0,1]; an
\* add_trusted_domain call with a score outside [0,1] returns false and
\* leaves the table as it was; remove_trusted_domain returns true exactly
\* when the domain was a key of the table, and removes that entry and no
\* other.
C23_TrustTableKeptValid ==
  [][ /\ \A i \in 1..Len(trusted_domains) :
           0 <= trusted_domains[i].trust /\ trusted_domains[i].trust <= 100
      /\ \A i \in 1..Len(trusted_domains') :
           0 <= trusted_domains'[i].trust /\ trusted_domains'[i].trust <= 100
      /\ ( last'.op = "add_trusted_domain"
           /\ ( last'.trust < 0 \/ last'.trust > 100 ) )
           => ~last'.ret /\ trusted_domains' = trusted_domains
      /\ last'.op = "remove_trusted_domain"
           => /\ last'.ret <=> \E i \in 1..Len(trusted_domains) :
                                 trusted_domains[i].domain = last'.domain
              /\ trusted_domains'
                   = SelectSeq(trusted_domains,
                               LAMBDA entry : entry.domain # last'.domain) ]_vars

\* after an entry was removed, an add_trusted_domain call with the score 1.1
\* was refused
C23_Witness ==
  /\ last.op = "add_trusted_domain" /\ last.trust = 110 /\ ~last.ret
  /\ Len(trusted_domains) < Len(InitialTrustedDomains)

\* C24: what set_policy_level, add_temporary_override and evaluate_content
\* return is what they return when the audit store takes the row: it depends
\* on the arguments and the engine state only, not on whether the INSERT
\* goes through.
C24_AuditFailureKeepsResult ==
  [][ /\ last'.op = "add_temporary_override"
           => last'.ret = verify_authorization(session_tokens, last'.token,
                                               override_required_level, now).ret
      /\ last'.op = "set_policy_level"
           => last'.ret
                = ( /\ last'.level \in DOMAIN policies
                    /\ requires_authorization(last'.level)
                         => verify_authorization(session_tokens, last'.token,
                                                 last'.level, now).ret )
      /\ last'.op = "evaluate_content"
           => last'.ret = evaluate_content(last'.content, last'.raising,
                                           current_level, policies,
                                           temporary_overrides, now).result ]_vars

\* C25: every set_policy_level call that returns True, the first after
\* construction and calls of interleaving threads included, appends one
\* policy-change row whose new level is its target, and consecutive rows
\* chain: the old level of a row is the level the row before it set.
C25_PolicyChangesChain ==
  [][ \A t \in Threads :
        ( inflight[t].pc = "log" /\ inflight'[t].pc = "idle" )
          => /\ Len(policy_changes') = Len(policy_changes) + 1
             /\ policy_changes'[Len(policy_changes')].new_level = inflight[t].level
             /\ \A i \in 1..(Len(policy_changes') - 1) :
                  policy_changes'[i].new_level = policy_changes'[i + 1].old_level ]_vars

\* C26: after a call that ran check_temporary_overrides (evaluate_content on
\* text that is not empty and encodes), whatever it returned, the live
\* override set holds no override whose expiry is earlier than the time of
\* the call.
C26_ExpiredOverridesPurged ==
  ( /\ last.op = "evaluate_content"
    /\ ~is_empty_content(last.content)
    /\ utf8_encodable(last.content) )
    => \A i \in 1..Len(temporary_overrides) : ~( now > temporary_overrides[i].expiry )

\* the level whose thresholds evaluate_content applies
ActiveLevel == IF current_level \in DOMAIN policies THEN current_level ELSE "safe"

\* the categories of CategoryOrder from i on whose score in scores is
\* strictly greater than the threshold of the active level
RECURSIVE CategoriesAbove(_, _)
CategoriesAbove(i, scores) ==
  IF i > Len(CategoryOrder) THEN << >>
  ELSE IF fgt(scores[CategoryOrder[i]], fl(policies[ActiveLevel][CategoryOrder[i]]))
    THEN << CategoryOrder[i] >> \o CategoriesAbove(i + 1, scores)
  ELSE CategoriesAbove(i + 1, scores)

\* C27: for text that is not empty, with no live override matching it,
\* evaluate_content returns allowed=true exactly when every category score
\* is <= the active level's threshold for the category (a score equal to the
\* threshold is allowed), and the violations list holds one entry for each
\* category whose score is strictly greater, and no other.
C27_AllowedIffWithinThresholds ==
  ( /\ last.op = "evaluate_content"
    /\ ~is_empty_content(last.content)
    /\ utf8_encodable(last.content)
    /\ ~MatchingOverride(temporary_overrides, last.content, now) )
    => /\ last.ret.allowed
            <=> \A c \in Categories :
                  ~fgt(last.ret.category_scores[c], fl(policies[ActiveLevel][c]))
       /\ [ i \in 1..Len(last.ret.violations) |-> last.ret.violations[i][1] ]
            = CategoriesAbove(1, last.ret.category_scores)

\* a text was allowed with a score that is above zero and equal to its
\* threshold
C27_Witness ==
  /\ last.op = "evaluate_content"
  /\ ~is_empty_content(last.content)
  /\ utf8_encodable(last.content)
  /\ ~MatchingOverride(temporary_overrides, last.content, now)
  /\ last.ret.allowed
  /\ \E c \in Categories :
       /\ last.ret.category_scores[c] = fl(policies[ActiveLevel][c])
       /\ fgt(last.ret.category_scores[c], fl(0))

\* C28: the threshold table defines, for each of the four levels, a threshold
\* in [0,1] for each of the ten categories; from a level to every higher level
\* no threshold falls, except that the Illegal threshold of Unrestricted is
\* lower than that of Research.
C28_ThresholdTableShape ==
  /\ DOMAIN policies = Levels
  /\ \A level \in Levels :
       /\ DOMAIN policies[level] = Categories
       /\ \A c \in Categories : 0 <= policies[level][c] /\ policies[level][c] <= 100
  /\ \A l1 \in Levels, l2 \in Levels, c \in Categories :
       ( /\ Rank[l1] < Rank[l2]
         /\ ~( c = "illegal" /\ l1 = "research" /\ l2 = "unrestricted" ) )
         => policies[l1][c] <= policies[l2][c]
  /\ policies["unrestricted"]["illegal"] < policies["research"]["illegal"]

\* the engine was raised to Unrestricted, whose Illegal threshold is the
\* lower one
C28_Witness ==
  /\ last.op = "set_policy_level" /\ last.ret
  /\ current_level = "unrestricted"
  /\ policies[current_level]["illegal"] < policies["research"]["illegal"]

\* C29: when evaluate_content fails outside the detectors (the text does not
\* encode as UTF-8), the call returns allowed=false with the evaluation-error
\* marker as its only violation, at every level and with any override live.
C29_InternalErrorBlocks ==
  ( /\ last.op = "evaluate_content"
    /\ ~is_empty_content(last.content)
    /\ \E i \in 1..Len(last.content) : last.content[i] = Surrogate )
    => /\ last.ret.allowed = FALSE
       /\ last.ret.violations = << << "Evaluation error" >> >>
       /\ last.ret.block_reason = "System error during evaluation"
       /\ last.ret.override_applied = FALSE

\* text that does not encode was evaluated at the top level while an
\* override was live
C29_Witness ==
  /\ last.op = "evaluate_content"
  /\ \E i \in 1..Len(last.content) : last.content[i] = Surrogate
  /\ current_level = "unrestricted"
  /\ \E i \in 1..Len(temporary_overrides) : now <= temporary_overrides[i].expiry
  /\ ~last.ret.allowed

\* C30: when detectors raise during evaluate_content, each of their
\* categories is scored 0.0, every other category keeps the score its
\* detector gives, and the evaluation ends with a normal result: all ten
\* scores compared with the thresholds, no error marker.
C30_DetectorFailureScoresZero ==
  ( /\ last.op = "evaluate_content"
    /\ ~is_empty_content(last.content)
    /\ utf8_encodable(last.content)
    /\ last.raising # { } )
    => /\ DOMAIN last.ret.category_scores = Categories
       /\ \A c \in last.raising : last.ret.category_scores[c] = << 0, 0 >>
       /\ \A c \in Categories \ last.raising :
            last.ret.category_scores[c] = TextScores[last.content][c]
       /\ last.ret.violations # << << "Evaluation error" >> >>
       /\ last.ret.allowed
            <=> \/ last.ret.override_applied
                \/ \A c \in Categories :
                     ~fgt(last.ret.category_scores[c], fl(policies[ActiveLevel][c]))
       /\ ~last.ret.override_applied
            => [ i \in 1..Len(last.ret.violations) |-> last.ret.violations[i][1] ]
                 = CategoriesAbove(1, last.ret.category_scores)

\* the violence detector raised on a text it would have scored above the
\* threshold, and the text was allowed; or the illegal detector raised while
\* the violence score of the text still blocked it
C30_Witness ==
  /\ last.op = "evaluate_content"
  /\ utf8_encodable(last.content)
  /\ ~last.ret.override_applied
  /\ last.raising = { "violence" }
  /\ fgt(TextScores[last.content]["violence"], fl(policies[ActiveLevel]["violence"]))
  /\ last.ret.allowed

\* the candidates of raw from i on whose own fetch succeeds, each fetched
\* against the history the fetches before it left
RECURSIVE FetchedOf(_, _, _, _, _)
FetchedOf(raw, outcomes, i, history, t) ==
  IF i > Len(raw) THEN << >>
  ELSE IF ~passes_trust_filter(Verdict(raw[i]))
    THEN FetchedOf(raw, outcomes, i + 1, history, t)
  ELSE LET content_data == fetch_safe_content(history, raw[i], outcomes[i], t)
       IN  ( IF content_data.success THEN << raw[i] >> ELSE << >> )
             \o FetchedOf(raw, outcomes, i + 1, content_data.request_history, t)

\* C31: when fetch_safe_content fails for one candidate URL, search_web_safely
\* still hands every remaining candidate to fetch_safe_content and returns
\* success with the results of exactly those whose fetch succeeded.
C31_FailedFetchKeepsBatch ==
  [][ ( last'.op = "search_web_safely" /\ last'.path = "searched" )
      => /\ last'.ret.success
         /\ last'.attempted
              = SelectSeq(last'.raw, LAMBDA url : passes_trust_filter(Verdict(url)))
         /\ [ k \in 1..Len(last'.ret.results) |-> last'.ret.results[k].url ]
              = FetchedOf(last'.raw, last'.outcomes, 1, request_history, time) ]_vars

\* the fetch of the first candidate failed and a later candidate is returned
C31_Witness ==
  /\ last.op = "search_web_safely" /\ last.path = "searched"
  /\ Len(last.attempted) >= 2
  /\ last.outcomes[1] = "timeout"
  /\ last.attempted[1] = last.raw[1]
  /\ \E k \in 1..Len(last.ret.results) : last.ret.results[k].url = last.attempted[2]

\* C32: with two or more threads calling fetch_safe_content for the same domain
\* concurrently, the number of timestamps recorded for that domain within its
\* window never exceeds the per-domain limit.
C32_DomainLimitUnderThreads ==
  \A key \in DOMAIN request_history \ { GlobalKey } :
    InWindow(request_history, key, per_domain_window) <= per_domain_requests

\* C33: token expiry never changes the active level: the level changes only
\* in a set_policy_level call that returns true, to the level requested, and
\* stays after the authorizing token has expired and been evicted.
C33_ExpiryKeepsLevel ==
  [][ current_level' # current_level
      => /\ last'.op = "set_policy_level"
         /\ last'.ret = TRUE
         /\ current_level' = last'.level ]_vars

\* the engine is at an elevated level, every token handed out has expired,
\* and the call just made evicted the last of them
C33_Witness ==
  /\ current_level \in { "research", "unrestricted" }
  /\ issued # << >>
  /\ \A token \in DOMAIN issued :
       now > issued[token] /\ token \notin DOMAIN session_tokens
  /\ last.op = "verify_authorization"
  /\ last.ret = FALSE

\* the key of policies that level selects in evaluate_content
ThresholdsOf(level) == IF level \in DOMAIN policies THEN level ELSE "safe"

\* C34: when set_policy_level runs concurrently with evaluate_content, the
\* policy level stored in the returned result and in the evaluation record is
\* the level whose thresholds decided allowed for that evaluation.
C34_ResultLevelDecided ==
  ( last.op = "evaluate_content" /\ ~is_empty_content(last.content)
    /\ utf8_encodable(last.content) )
    => /\ ThresholdsOf(last.ret.policy_level) = ThresholdsOf(last.threshold_level)
       /\ \A i \in 1..Len(appended.content_evaluations) :
            ThresholdsOf(appended.content_evaluations[i].policy_level)
              = ThresholdsOf(last.threshold_level)

\* C35: after remove_trusted_domain(d) has returned true, no later
\* search_web_safely response, one served from the cache included, holds a
\* result whose host was trusted through entry d only: every result returned
\* is of a host the table trusts at the time of the call.
C35_RemovedDomainNotReturned ==
  ( last.op = "search_web_safely" /\ last.ret.success )
    => \A k \in 1..Len(last.ret.results) : Verdict(last.ret.results[k].url).trusted

\* C36: whenever add_temporary_override returns false, a failed write to the
\* override audit table included, the call has neither added nor replaced an
\* entry of the live override set.
C36_RefusedOverrideLeavesNoEntry ==
  [][ ( last'.op = "add_temporary_override" /\ last'.ret = FALSE )
      => temporary_overrides' = temporary_overrides ]_vars

\* C37: import_policy_config is all-or-nothing: when it returns false, the
\* threshold table and the active level are what they were before the call.
C37_FailedImportChangesNothing ==
  [][ ( last'.op = "import_policy_config" /\ last'.ret = FALSE )
      => ( policies' = policies /\ current_level' = current_level ) ]_vars

\* C38: after any sequence of operations, imports of arbitrary snapshots with
\* an Unrestricted token included, every level defines a threshold for every
\* category and every threshold lies in [0,1].
C38_ThresholdsStayInRange ==
  /\ DOMAIN policies = Range(LevelMembers)
  /\ \A level \in Range(LevelMembers) :
       /\ DOMAIN policies[level] = Range(CategoryMembers)
       /\ \A c \in Range(CategoryMembers) :
            0 <= policies[level][c] /\ policies[level][c] <= 100

\* C39: an unexpired override whose pattern matches the text is applied
\* whatever else the override table holds: no expired entry and no entry with
\* a malformed pattern keeps the evaluation from finding it.
C39_LiveMatchAlwaysApplies ==
  ( /\ last.op = "evaluate_content"
    /\ ~is_empty_content(last.content)
    /\ utf8_encodable(last.content)
    /\ \E i \in 1..Len(temporary_overrides) :
         /\ ~( now > temporary_overrides[i].expiry )
         /\ re_compiles(temporary_overrides[i].pattern)
         /\ re_search(temporary_overrides[i].pattern, last.content, TRUE) )
    => last.ret.override_applied

====
